---------------------------- MODULE Spec2Model ----------------------------
(***************************************************************************)
(* A model of scripts/generate_terraform_zones.py, the Route53 -> Terraform *)
(* generator (class Route53TerraformGenerator).                             *)
(*                                                                         *)
(* Text is modelled at two levels.  Names and record values are Python str *)
(* values, modelled as sequences of one-character strings, so that         *)
(* endswith, replace, rsplit, strip and the escaping code are computed.    *)
(* Files are sequences of lines ('\n'.join(lines) is the file's text);     *)
(* each line is a record naming the format string that produced it and the *)
(* values interpolated into it.                                            *)
(***************************************************************************)
EXTENDS Naturals, Sequences, FiniteSets

VARIABLES
    txtValue,     \* a TXT record's value r as returned by the listing
    txtLiteral,   \* the entry of formatted_records emitted for it
    relZone,      \* zone_name
    relOwner,     \* record['name']
    relContent,   \* record_name computed by generate_terraform_content
    relCommands,  \* record_name computed by generate_import_commands
    relBlocks,    \* record_name computed by generate_import_blocks
    listing,      \* Route53's record sets of each hosted zone, by zone id
    importsFile,  \* root/imports.tf: its lines, or NoFile
    importsPrev,  \* root/imports.tf as the last run found it
    lastRun,      \* the last run's processed_zones and flags
    blocksFor,    \* processed_zones of the last generate_import_blocks
    blocks,       \* the list blocks it built
    printedFor,   \* processed_zones of the last generate_import_commands
    printed,      \* the import commands it printed
    runs,         \* the number of runs made
    zonesOutputs, \* root/zones/outputs.tf: its lines, or NoFile
    rootOutputs,  \* root/outputs.tf: its lines, or NoFile
    zonesPrev,    \* root/zones/outputs.tf before the last update of it
    rootPrev,     \* root/outputs.tf before the last update of it
    merge,        \* the run in progress: its processed_zones, dry_run, place
    mergePrev,    \* the run before it
    merges,       \* the number of runs that reached the outputs update
    inventory,    \* Route53's hosted zones as list_hosted_zones finds them
    zoneFiles,    \* root/zones/{name}.tf by zone name: its lines, or NoFile
    run,          \* the call of run() in progress: its arguments, the
                  \* generator's fields, the locals of run() and its place
    runPrev,      \* the call of run() before it, as it ended
    startFiles,   \* the files as the call of run() in progress found them
    log           \* the steps the call of run() in progress has made

txtVars == <<txtValue, txtLiteral>>
relVars == <<relZone, relOwner, relContent, relCommands, relBlocks>>
impVars == <<listing, importsFile, importsPrev, lastRun, blocksFor, blocks, printedFor, printed, runs>>
mrgVars == <<zonesOutputs, rootOutputs, zonesPrev, rootPrev, merge, mergePrev, merges>>
runVars == <<inventory, zoneFiles, run, runPrev, startFiles, log>>
vars == <<txtVars, relVars, impVars, mrgVars, runVars>>

(***************************************************************************)
(* Bounds of the model.                                                    *)
(***************************************************************************)
MaxTxtLen == 4
MaxLabels == 2
MaxRuns == 2

(***************************************************************************)
(* Python str operations on sequences of characters.                       *)
(***************************************************************************)
\* A value that no str equals: the output has not been computed yet.
Unset == <<"<unset>">>

StartsWith(s, p) ==
    /\ Len(p) <= Len(s)
    /\ SubSeq(s, 1, Len(p)) = p

EndsWith(s, p) ==
    /\ Len(p) <= Len(s)
    /\ SubSeq(s, Len(s) - Len(p) + 1, Len(s)) = p

\* s.replace(old, new): occurrences are replaced left to right and the scan
\* resumes after each replaced occurrence.
RECURSIVE Replace(_, _, _)
Replace(s, old, new) ==
    IF s = <<>> THEN <<>>
    ELSE IF StartsWith(s, old)
         THEN new \o Replace(SubSeq(s, Len(old) + 1, Len(s)), old, new)
         ELSE <<Head(s)>> \o Replace(Tail(s), old, new)

\* The index of the last occurrence of character c in s, 0 when there is none.
RECURSIVE LastIndexOf(_, _)
LastIndexOf(s, c) ==
    IF s = <<>> THEN 0
    ELSE IF s[Len(s)] = c THEN Len(s)
         ELSE LastIndexOf(SubSeq(s, 1, Len(s) - 1), c)

\* s.rsplit(c, 1)[0]
RSplitHead(s, c) ==
    IF LastIndexOf(s, c) = 0 THEN s
    ELSE SubSeq(s, 1, LastIndexOf(s, c) - 1)

\* s.rstrip(c)
RECURSIVE RStripChar(_, _)
RStripChar(s, c) ==
    IF s # <<>> /\ s[Len(s)] = c THEN RStripChar(SubSeq(s, 1, Len(s) - 1), c) ELSE s

\* s.strip(c)
RECURSIVE LStripChar(_, _)
LStripChar(s, c) ==
    IF s # <<>> /\ Head(s) = c THEN LStripChar(Tail(s), c) ELSE s

StripChar(s, c) == LStripChar(RStripChar(s, c), c)

\* The concatenation of a sequence of sequences.
RECURSIVE Flatten(_)
Flatten(ss) == IF ss = <<>> THEN <<>> ELSE Head(ss) \o Flatten(Tail(ss))

\* The strings over alphabet A of length at most n.
RECURSIVE StringsUpTo(_, _)
StringsUpTo(A, n) ==
    IF n = 0 THEN {<<>>}
    ELSE LET shorter == StringsUpTo(A, n - 1)
         IN  shorter \cup {<<c>> \o s : c \in A, s \in {t \in shorter : Len(t) = n - 1}}

Dot == <<".">>
Quote == "\""
Backslash == "\\"
EscapedAt == <<"\\", "1", "0", "0">>
At == <<"@">>

(***************************************************************************)
(* The variables of the parts of the program a specification leaves alone. *)
(***************************************************************************)
TxtIdle == txtValue = <<>> /\ txtLiteral = Unset
NoFile == <<[k |-> "<no file>", v |-> <<>>]>>
NoRun == [zones |-> <<>>, force |-> FALSE, dry_run |-> FALSE, import_blocks |-> FALSE]
ImpIdle ==
    /\ listing = <<>>
    /\ importsFile = NoFile
    /\ importsPrev = NoFile
    /\ lastRun = NoRun
    /\ blocksFor = <<>>
    /\ blocks = <<>>
    /\ printedFor = <<>>
    /\ printed = <<>>
    /\ runs = 0
NoMerge == [zones |-> <<>>, dry_run |-> FALSE]
MrgIdle ==
    /\ zonesOutputs = NoFile
    /\ rootOutputs = NoFile
    /\ zonesPrev = NoFile
    /\ rootPrev = NoFile
    /\ merge = NoMerge
    /\ mergePrev = NoMerge
    /\ merges = 0
NoDomain == <<"<None>">>
NoZone == [id |-> <<>>, name |-> <<>>, private |-> FALSE, comment |-> <<>>]
NoContent == [zone |-> NoZone, records |-> <<>>, parent_zone |-> <<>>, content |-> <<>>]
\* No call of run() is in progress or has been made.
NoCall ==
    [pc |-> "idle", domain |-> NoDomain, all_domains |-> FALSE, dry_run |-> FALSE,
     force |-> FALSE, import_blocks |-> FALSE, zones |-> <<>>, targets |-> <<>>, i |-> 1,
     processed_zones |-> <<>>, processed |-> 0, skipped |-> 0, generated |-> NoContent,
     exit |-> ""]
RunIdle ==
    /\ inventory = <<>>
    /\ zoneFiles = <<>>
    /\ run = NoCall
    /\ runPrev = NoCall
    /\ startFiles = <<>>
    /\ log = <<>>
RelIdle ==
    /\ relZone = <<>>
    /\ relOwner = <<>>
    /\ relContent = Unset
    /\ relCommands = Unset
    /\ relBlocks = Unset

(***************************************************************************)
(* TXT values: generate_terraform_content, the TXT branch.                 *)
(***************************************************************************)
\* if r.startswith('"') and r.endswith('"'): r = r[1:-1]
StripOuterQuotes(r) ==
    IF StartsWith(r, <<Quote>>) /\ EndsWith(r, <<Quote>>)
    THEN SubSeq(r, 2, Len(r) - 1)
    ELSE r

\* A faulty variant of EscapeHcl: the two replacements in the other order.
EscapeHclQuoteFirst(r) ==
    Replace(Replace(r, <<Quote>>, <<Backslash, Quote>>),
            <<Backslash>>, <<Backslash, Backslash>>)

\* r.replace('\\', '\\\\').replace('"', '\\"')
EscapeHcl(r) ==
    Replace(Replace(r, <<Backslash>>, <<Backslash, Backslash>>),
            <<Quote>>, <<Backslash, Quote>>)

\* formatted_records.append(f'"{r}"')
FormatTxtValue(r) ==
    <<Quote>> \o EscapeHcl(StripOuterQuotes(r)) \o <<Quote>>

TxtAlphabet == {"a", Quote, Backslash}
TxtValues == StringsUpTo(TxtAlphabet, MaxTxtLen)

InitTxt ==
    /\ txtValue \in TxtValues
    /\ txtLiteral = Unset
    /\ RelIdle
    /\ ImpIdle
    /\ MrgIdle
    /\ RunIdle

FormatTxt ==
    /\ txtLiteral = Unset
    /\ txtLiteral' = FormatTxtValue(txtValue)
    /\ UNCHANGED <<runVars, txtValue, relVars, impVars, mrgVars>>

NextTxt == FormatTxt

SpecTxt == InitTxt /\ [][NextTxt]_vars

\* Reading a quoted literal back: the text between the outer quotes, with
\* every backslash taken together with the character after it.
RECURSIVE HclUnescape(_)
HclUnescape(s) ==
    IF s = <<>> THEN <<>>
    ELSE IF Head(s) = Backslash /\ Len(s) >= 2
         THEN <<s[2]>> \o HclUnescape(SubSeq(s, 3, Len(s)))
         ELSE <<Head(s)>> \o HclUnescape(Tail(s))

LiteralBody(lit) == SubSeq(lit, 2, Len(lit) - 1)

\* The bytes the claim calls the original: the value without one layer of
\* surrounding double quotes when it both starts and ends with one.
TxtOriginal(v) ==
    IF Len(v) >= 1 /\ v[1] = Quote /\ v[Len(v)] = Quote
    THEN [i \in 1..(IF Len(v) >= 2 THEN Len(v) - 2 ELSE 0) |-> v[i + 1]]
    ELSE v

\* No double quote of the body is left unescaped, so the literal ends where
\* its closing quote is.
RECURSIVE WellQuoted(_)
WellQuoted(s) ==
    IF s = <<>> THEN TRUE
    ELSE IF Head(s) = Backslash THEN Len(s) >= 2 /\ WellQuoted(SubSeq(s, 3, Len(s)))
         ELSE Head(s) # Quote /\ WellQuoted(Tail(s))

\* C10: the emitted literal is a quoted string whose body, with the literal
\* escaping reversed, is exactly the original bytes of the TXT value.
C10_TxtRoundTrip ==
    txtLiteral # Unset =>
        /\ Len(txtLiteral) >= 2
        /\ txtLiteral[1] = Quote
        /\ txtLiteral[Len(txtLiteral)] = Quote
        /\ WellQuoted(LiteralBody(txtLiteral))
        /\ HclUnescape(LiteralBody(txtLiteral)) = TxtOriginal(txtValue)

\* A value holding both a double quote and a backslash inside surrounding
\* quotes has been emitted.
C10_Witness ==
    /\ txtLiteral # Unset
    /\ txtValue = <<Quote, Backslash, Quote, Quote>>
    /\ txtLiteral = <<Quote, Backslash, Backslash, Backslash, Quote, Quote>>

(***************************************************************************)
(* Relative record names.  The same computation is written out at three    *)
(* places of the program; each is modelled from its own lines.             *)
(***************************************************************************)
\* generate_terraform_content: the name written into a records entry.
ContentRecordName(name, zone_name) ==
    LET stripped ==
            IF name = zone_name THEN <<>>
            ELSE IF EndsWith(name, Dot \o zone_name)
                 THEN SubSeq(name, 1, Len(name) - Len(zone_name) - 1)
                 ELSE name
        replaced == Replace(stripped, EscapedAt, At)
    IN  IF stripped = <<>> THEN <<>>
        ELSE IF replaced = At THEN <<>>
        ELSE IF EndsWith(replaced, Dot \o At) \/ EndsWith(replaced, Dot \o EscapedAt)
             THEN RSplitHead(replaced, ".")
             ELSE replaced

\* generate_import_commands: the name used in the key and the identifier.
CommandsRecordName(name, zone_name) ==
    LET stripped ==
            IF name = zone_name THEN <<>>
            ELSE IF EndsWith(name, Dot \o zone_name)
                 THEN SubSeq(name, 1, Len(name) - Len(zone_name) - 1)
                 ELSE name
        replaced == Replace(stripped, EscapedAt, At)
    IN  IF stripped = <<>> THEN <<>>
        ELSE IF replaced = At THEN <<>>
        ELSE IF EndsWith(replaced, Dot \o At) \/ EndsWith(replaced, Dot \o EscapedAt)
             THEN RSplitHead(replaced, ".")
             ELSE replaced

\* A faulty variant of BlocksRecordName: the suffix test without the separating dot.
BlocksRecordNameNoDot(name, zone_name) ==
    LET stripped ==
            IF name = zone_name THEN <<>>
            ELSE IF EndsWith(name, zone_name)
                 THEN SubSeq(name, 1, Len(name) - Len(zone_name) - 1)
                 ELSE name
        replaced == Replace(stripped, EscapedAt, At)
    IN  IF stripped = <<>> THEN <<>>
        ELSE IF replaced = At THEN <<>>
        ELSE IF EndsWith(replaced, Dot \o At) \/ EndsWith(replaced, Dot \o EscapedAt)
             THEN RSplitHead(replaced, ".")
             ELSE replaced

\* generate_import_blocks: the name used in the key.
BlocksRecordName(name, zone_name) ==
    LET stripped ==
            IF name = zone_name THEN <<>>
            ELSE IF EndsWith(name, Dot \o zone_name)
                 THEN SubSeq(name, 1, Len(name) - Len(zone_name) - 1)
                 ELSE name
        replaced == Replace(stripped, EscapedAt, At)
    IN  IF stripped = <<>> THEN <<>>
        ELSE IF replaced = At THEN <<>>
        ELSE IF EndsWith(replaced, Dot \o At) \/ EndsWith(replaced, Dot \o EscapedAt)
             THEN RSplitHead(replaced, ".")
             ELSE replaced

\* Inputs: zone names, and owner names made of labels in front of a zone
\* name, of labels alone, or of a name that ends with the zone name without
\* being under it.
RelZoneNames == {<<"e", ".", "c">>, <<"c">>}
RelLabels == {<<"w">>, EscapedAt, At}

RECURSIVE LabelPrefixes(_)
LabelPrefixes(n) ==
    IF n = 0 THEN {<<>>}
    ELSE LET shorter == LabelPrefixes(n - 1)
         IN  shorter \cup
             {IF p = <<>> THEN l ELSE l \o Dot \o p : l \in RelLabels, p \in shorter}

RelOwners ==
    LET ps == LabelPrefixes(MaxLabels)
    IN  RelZoneNames
        \cup (ps \ {<<>>})
        \cup {p \o Dot \o z : p \in ps \ {<<>>}, z \in RelZoneNames}
        \cup {<<"w">> \o z : z \in RelZoneNames}

InitRel ==
    /\ relZone \in RelZoneNames
    /\ relOwner \in RelOwners
    /\ relContent = Unset
    /\ relCommands = Unset
    /\ relBlocks = Unset
    /\ TxtIdle
    /\ ImpIdle
    /\ MrgIdle
    /\ RunIdle

EmitContentName ==
    /\ relContent = Unset
    /\ relContent' = ContentRecordName(relOwner, relZone)
    /\ UNCHANGED <<runVars, relZone, relOwner, relCommands, relBlocks, txtVars, impVars, mrgVars>>

PlanCommandName ==
    /\ relCommands = Unset
    /\ relCommands' = CommandsRecordName(relOwner, relZone)
    /\ UNCHANGED <<runVars, relZone, relOwner, relContent, relBlocks, txtVars, impVars, mrgVars>>

PlanBlockName ==
    /\ relBlocks = Unset
    /\ relBlocks' = BlocksRecordName(relOwner, relZone)
    /\ UNCHANGED <<runVars, relZone, relOwner, relContent, relCommands, txtVars, impVars, mrgVars>>

NextRel == EmitContentName \/ PlanCommandName \/ PlanBlockName

SpecRel == InitRel /\ [][NextRel]_vars

\* The owner without the zone: the three cases of the claim.
RelStripped(owner, zone) ==
    IF owner = zone THEN <<>>
    ELSE IF Len(owner) > Len(zone) + 1
            /\ \A i \in 1..Len(zone) : owner[Len(owner) - Len(zone) + i] = zone[i]
            /\ owner[Len(owner) - Len(zone)] = "."
         THEN [i \in 1..(Len(owner) - Len(zone) - 1) |-> owner[i]]
         ELSE IF Len(owner) = Len(zone) + 1
                 /\ \A i \in 1..Len(zone) : owner[1 + i] = zone[i]
                 /\ owner[1] = "."
              THEN <<>>
              ELSE owner

\* The name without its last label.
DropLastLabel(s) ==
    LET dots == {i \in 1..Len(s) : s[i] = "."}
        last == CHOOSE i \in dots : \A j \in dots : j <= i
    IN  IF dots = {} THEN s ELSE [i \in 1..(last - 1) |-> s[i]]

LastLabel(s) ==
    LET dots == {i \in 1..Len(s) : s[i] = "."}
        last == CHOOSE i \in dots : \A j \in dots : j <= i
    IN  IF dots = {} THEN s ELSE [i \in 1..(Len(s) - last) |-> s[last + i]]

\* The relative name as the claim states it: the stripped owner, empty when
\* it is the escaped-apex label alone, without a trailing apex label.
RelAsClaimed(owner, zone) ==
    LET base == RelStripped(owner, zone)
    IN  IF base \in {EscapedAt, At} THEN <<>>
        ELSE IF base # LastLabel(base) /\ LastLabel(base) \in {EscapedAt, At}
             THEN DropLastLabel(base)
             ELSE base

\* The relative name as amended: as claimed, with every \100 left in the
\* name written as @.
RelAsAmended(owner, zone) ==
    LET base == Replace(RelStripped(owner, zone), EscapedAt, At)
    IN  IF base = At THEN <<>>
        ELSE IF base # LastLabel(base) /\ LastLabel(base) = At
             THEN DropLastLabel(base)
             ELSE base

RelComputed == {n \in {relContent, relCommands, relBlocks} : n # Unset}

\* C9 as stated: every computed relative name is the stripped owner with the
\* apex label cases applied, and the three places agree.
C9_AsStated ==
    \A n \in RelComputed : n = RelAsClaimed(relOwner, relZone)

\* C9 amended: every computed relative name is the stripped owner in which
\* each \100 is written as @, empty when that is @ alone, without a trailing
\* @ label; the content emitter and both import planners compute the same.
C9_Relativization ==
    /\ \A n \in RelComputed : n = RelAsAmended(relOwner, relZone)
    /\ Cardinality(RelComputed) <= 1

\* All three places have computed the name of an escaped-apex owner under
\* the zone, and of an owner whose escaped label is not the last one.
C9_Witness ==
    /\ Unset \notin {relContent, relCommands, relBlocks}
    /\ relZone = <<"e", ".", "c">>
    /\ relOwner = EscapedAt \o Dot \o <<"w">> \o Dot \o relZone
    /\ relBlocks = At \o Dot \o <<"w">>

(***************************************************************************)
(* Module names and the zone inventory.                                    *)
(***************************************************************************)
Letters == {"a", "b", "c", "e", "g", "l", "n", "o", "s", "t", "w", "x", "z",
            "A", "N", "O", "S", "T", "X", "Z"}
Digits == {"0", "1", "2", "3", "4"}
IsAlpha(ch) == ch \in Letters
IsAlnum(ch) == ch \in Letters \cup Digits

\* sanitize_module_name
SanitizeModuleName(domain) ==
    LET replaced == [i \in 1..Len(domain) |->
                        IF domain[i] \in {".", "-"} THEN "_" ELSE domain[i]]
        name == IF replaced = <<>> \/ ~(IsAlpha(replaced[1]) \/ replaced[1] = "_")
                THEN <<"_">> \o replaced
                ELSE replaced
    IN  [i \in 1..Len(name) |-> IF IsAlnum(name[i]) \/ name[i] = "_" THEN name[i] ELSE "_"]

TypeA == <<"A">>
TypeNS == <<"N", "S">>
TypeSOA == <<"S", "O", "A">>
TypeTXT == <<"T", "X", "T">>

\* The zones as list_hosted_zones returns them: ids without /hostedzone/,
\* names without the trailing dot.  a.b and a-b have the same module name;
\* s.a.b is under a.b; the module name of all.zones is all_zones.
HostedZones ==
    << [id |-> <<"Z", "1">>, name |-> <<"a", ".", "b">>, private |-> FALSE],
       [id |-> <<"Z", "2">>, name |-> <<"a", "-", "b">>, private |-> FALSE],
       [id |-> <<"Z", "3">>, name |-> <<"s", ".", "a", ".", "b">>, private |-> FALSE],
       [id |-> <<"Z", "4">>, name |-> <<"a", "l", "l", ".", "z", "o", "n", "e", "s">>,
        private |-> FALSE] >>

ZoneIds == {HostedZones[i].id : i \in 1..Len(HostedZones)}

RecordSet(name, type) == [Name |-> name, Type |-> type]

\* Record sets a zone may hold, as Route53 lists them (names end with a dot):
\* the apex NS and SOA, an apex A and a www A ...
PlainListing(zone_name) ==
    << RecordSet(zone_name \o Dot, TypeNS),
       RecordSet(zone_name \o Dot, TypeSOA),
       RecordSet(zone_name \o Dot, TypeA),
       RecordSet(<<"w">> \o Dot \o zone_name \o Dot, TypeA) >>

\* ... or an apex A, an A at the escaped label @, a delegation NS below the
\* apex and a TXT whose owner is not under the zone.
OddListing(zone_name) ==
    << RecordSet(zone_name \o Dot, TypeA),
       RecordSet(EscapedAt \o Dot \o zone_name \o Dot, TypeA),
       RecordSet(<<"w">> \o Dot \o zone_name \o Dot, TypeNS),
       RecordSet(<<"o", ".", "g">> \o Dot, TypeTXT) >>

ListingOf(choice) ==
    [id \in ZoneIds |->
        LET i == CHOOSE k \in 1..Len(HostedZones) : HostedZones[k].id = id
        IN  IF choice[i] = "plain" THEN PlainListing(HostedZones[i].name)
            ELSE IF choice[i] = "odd" THEN OddListing(HostedZones[i].name)
            ELSE <<>>]

Listings ==
    {ListingOf(c) : c \in {<<"plain", "plain", "plain", "plain">>,
                           <<"odd", "plain", "none", "none">>,
                           <<"plain", "odd", "odd", "plain">>}}

\* A record set with a TTL and values, and an alias record set.
ValuedRecordSet(name, type, ttl, values) ==
    [Name |-> name, Type |-> type, TTL |-> ttl, ResourceRecords |-> values]
AliasRecordSet(name, type, dns_name) ==
    [Name |-> name, Type |-> type,
     AliasTarget |-> [DNSName |-> dns_name, HostedZoneId |-> <<"Z", "0">>,
                      EvaluateTargetHealth |-> FALSE]]

\* The place in a listing at which the paginator raises ClientError.
ClientError == [Error |-> "ClientError"]
IsClientError(rs) == "Error" \in DOMAIN rs

NoTTL == <<"<None>">>
NoAlias == [name |-> <<>>, zone_id |-> <<>>, evaluate_target_health |-> FALSE, absent |-> TRUE]

\* get_zone_records: record_data of a record set.
RecordData(rs) ==
    [name |-> RStripChar(rs.Name, "."),
     type |-> rs.Type,
     ttl |-> IF "AliasTarget" \in DOMAIN rs \/ "TTL" \notin DOMAIN rs THEN NoTTL ELSE rs.TTL,
     records |-> IF "ResourceRecords" \in DOMAIN rs THEN rs.ResourceRecords ELSE <<>>,
     alias |-> IF "AliasTarget" \in DOMAIN rs
               THEN [name |-> RStripChar(rs.AliasTarget.DNSName, "."),
                     zone_id |-> rs.AliasTarget.HostedZoneId,
                     evaluate_target_health |-> rs.AliasTarget.EvaluateTargetHealth,
                     absent |-> FALSE]
               ELSE NoAlias]

\* get_zone_records: the records of a zone without the apex NS and SOA; when
\* the listing raises ClientError, the records appended before it.
GetZoneRecords(zone_id, zone_name) ==
    LET sets == listing[zone_id]
        errors == {i \in 1..Len(sets) : IsClientError(sets[i])}
        listed == IF errors = {} THEN sets
                  ELSE SubSeq(sets, 1, (CHOOSE i \in errors : \A j \in errors : i <= j) - 1)
        Managed(rs) == ~(rs.Type \in {TypeNS, TypeSOA} /\ RStripChar(rs.Name, ".") = zone_name)
        kept == SelectSeq(listed, Managed)
    IN  [i \in 1..Len(kept) |-> RecordData(kept[i])]

NoParent == <<"<none>">>

\* A faulty variant of IsSubdomain: the last listed zone the domain is under.
IsSubdomainLast(domain, zones) ==
    LET hits == {i \in 1..Len(zones) :
                    domain # zones[i].name /\ EndsWith(domain, Dot \o zones[i].name)}
    IN  IF hits = {} THEN NoParent
        ELSE zones[CHOOSE i \in hits : \A j \in hits : i >= j].name

\* is_subdomain: the name of the first listed zone the domain is under.
IsSubdomain(domain, zones) ==
    LET hits == {i \in 1..Len(zones) :
                    domain # zones[i].name /\ EndsWith(domain, Dot \o zones[i].name)}
    IN  IF hits = {} THEN NoParent
        ELSE zones[CHOOSE i \in hits : \A j \in hits : i <= j].name

\* process_zone: the entry appended to processed_zones.
ProcessedZone(zone, zones) ==
    [name |-> zone.name,
     id |-> zone.id,
     is_subdomain |-> IsSubdomain(zone.name, zones) # NoParent,
     has_records |-> Len(GetZoneRecords(zone.id, zone.name)) > 0,
     existing |-> TRUE]

\* The elements of s at the indices in S, in order.
RECURSIVE Pick(_, _, _)
Pick(s, S, i) ==
    IF i > Len(s) THEN <<>>
    ELSE (IF i \in S THEN <<s[i]>> ELSE <<>>) \o Pick(s, S, i + 1)

\* The batches run() can process: the listed zones whose artifact file is
\* absent (or all of them under force), in listing order.
Batches == {Pick(HostedZones, S, 1) : S \in (SUBSET (1..Len(HostedZones))) \ {{}}}

ProcessedZones(batch) == [i \in 1..Len(batch) |-> ProcessedZone(batch[i], HostedZones)]

(***************************************************************************)
(* Import planning: generate_import_blocks and generate_import_commands.   *)
(***************************************************************************)
Line(k, v) == [k |-> k, v |-> v]
BlankLine == Line("blank", <<>>)

\* text.rstrip() on the lines of a text: the text "" is one empty line.
RECURSIVE RStripLines(_)
RStripLines(lines) ==
    IF Len(lines) <= 1 THEN (IF lines = <<>> THEN <<BlankLine>> ELSE lines)
    ELSE IF lines[Len(lines)].k = "blank"
         THEN RStripLines(SubSeq(lines, 1, Len(lines) - 1))
         ELSE lines

ZoneModuleOf(zone_info) ==
    IF zone_info.is_subdomain
    THEN SanitizeModuleName(zone_info.name) \o <<"_subdomain_zone">>
    ELSE SanitizeModuleName(zone_info.name)

RecordsModuleOf(zone_info) ==
    IF zone_info.is_subdomain
    THEN SanitizeModuleName(zone_info.name) \o <<"_subdomain_zone_records">>
    ELSE SanitizeModuleName(zone_info.name) \o <<"_records">>

\* module.zones.module.{zone_module}.aws_route53_zone.this["{zone_name}"]
ZoneAddress(zone_module, zone_name) ==
    <<"module.zones.module.">> \o zone_module \o <<".aws_route53_zone.this[">>
        \o <<Quote>> \o zone_name \o <<Quote>> \o <<"]">>

\* module.zones.module.{records_module}.aws_route53_record.this["{terraform_key}"]
RecordAddress(records_module, terraform_key) ==
    <<"module.zones.module.">> \o records_module \o <<".aws_route53_record.this[">>
        \o <<Quote>> \o terraform_key \o <<Quote>> \o <<"]">>

\* f"{record_name} {record['type']}"
TerraformKey(record_name, type) == record_name \o <<" ">> \o type

\* A faulty variant of BlockImportIdentifier: the identifier built from the
\* normalized relative name, as generate_import_commands builds it.
BlockImportIdentifierRelative(zone_id, zone_name, record) ==
    LET record_name == BlocksRecordName(record.name, zone_name)
        import_name == IF record_name = <<>> THEN zone_name
                       ELSE record_name \o Dot \o zone_name
    IN  zone_id \o <<"_">> \o import_name \o <<"_">> \o record.type

\* generate_import_blocks: the identifier of a record, from the raw name
\* with its backslashes doubled for the HCL literal.
BlockImportIdentifier(zone_id, zone_name, record) ==
    LET import_name_raw == RStripChar(record.name, ".")
        import_name_hcl == Replace(import_name_raw, <<Backslash>>, <<Backslash, Backslash>>)
    IN  zone_id \o <<"_">> \o import_name_hcl \o <<"_">> \o record.type

ZoneImportBlock(zone_info) ==
    << Line("# Import hosted zone", <<>>),
       Line("import {", <<>>),
       Line("  to = ", ZoneAddress(ZoneModuleOf(zone_info), zone_info.name)),
       Line("  id = ", <<Quote>> \o zone_info.id \o <<Quote>>),
       Line("}", <<>>),
       BlankLine >>

RecordImportBlock(zone_info, record) ==
    LET terraform_key == TerraformKey(BlocksRecordName(record.name, zone_info.name), record.type)
    IN  << Line("# Import record: ", terraform_key),
           Line("import {", <<>>),
           Line("  to = ", RecordAddress(RecordsModuleOf(zone_info), terraform_key)),
           Line("  id = ", <<Quote>>
                            \o BlockImportIdentifier(zone_info.id, zone_info.name, record)
                            \o <<Quote>>),
           Line("}", <<>>),
           BlankLine >>

\* The records a binding is planned for: all but NS and SOA.
ImportableRecords(zone_info) ==
    LET Importable(r) == r.type \notin {TypeNS, TypeSOA}
    IN  SelectSeq(GetZoneRecords(zone_info.id, zone_info.name), Importable)

\* The loop that builds blocks: per zone, its block and then its records'.
RECURSIVE BuildImportBlocks(_)
BuildImportBlocks(zone_infos) ==
    IF zone_infos = <<>> THEN <<>>
    ELSE LET zone_info == Head(zone_infos)
             records == ImportableRecords(zone_info)
         IN  (IF zone_info.existing
              THEN ZoneImportBlock(zone_info)
                   \o Flatten([i \in 1..Len(records) |-> RecordImportBlock(zone_info, records[i])])
              ELSE <<>>)
             \o BuildImportBlocks(Tail(zone_infos))

\* _parse_existing_imports_to_addresses
ParseExistingImportsToAddresses(content) ==
    {StripChar(content[i].v, Quote) : i \in {j \in 1..Len(content) : content[j].k = "  to = "}}

\* The loop that filters blocks by their 'to' address.  st holds new_blocks,
\* current_to and buffer.
RECURSIVE FilterBlocks(_, _, _)
FilterBlocks(lines, existing_addresses, st) ==
    IF lines = <<>> THEN st.new_blocks
    ELSE LET line == Head(lines)
             next ==
                IF line.k = "import {"
                THEN [st EXCEPT !.buffer = <<line>>, !.current_to = Unset]
                ELSE IF line.k = "  to = "
                THEN [st EXCEPT !.current_to = line.v, !.buffer = Append(st.buffer, line)]
                ELSE IF line.k = "}"
                THEN [new_blocks |->
                        IF st.current_to = Unset
                           \/ StripChar(st.current_to, Quote) \notin existing_addresses
                        THEN st.new_blocks \o st.buffer \o <<line, BlankLine>>
                        ELSE st.new_blocks,
                      buffer |-> <<>>,
                      current_to |-> Unset]
                ELSE IF st.buffer # <<>>
                THEN [st EXCEPT !.buffer = Append(st.buffer, line)]
                ELSE [st EXCEPT !.new_blocks = Append(st.new_blocks, line)]
         IN  \* (the test only makes TLC compute next before it goes on)
             IF Len(next.new_blocks) >= 0
             THEN FilterBlocks(Tail(lines), existing_addresses, next)
             ELSE <<>>

NewBlocks(all_blocks, existing_addresses) ==
    FilterBlocks(all_blocks, existing_addresses,
                 [new_blocks |-> <<>>, buffer |-> <<>>, current_to |-> Unset])

\* A faulty variant of ImportsFileContent: without force too, the file is replaced.
ImportsFileContentOverwrite(file, all_blocks, force) == all_blocks

\* generate_import_blocks, the part that is not a dry run: the content
\* written to imports.tf.
ImportsFileContent(file, all_blocks, force) ==
    IF file # NoFile /\ ~force
    THEN LET new_blocks == NewBlocks(all_blocks, ParseExistingImportsToAddresses(file))
         IN  IF new_blocks # <<>>
             THEN RStripLines(file) \o <<BlankLine>> \o RStripLines(new_blocks) \o <<BlankLine>>
             ELSE file
    ELSE all_blocks

\* generate_import_commands: the identifier of a record.
CommandImportIdentifier(zone_id, zone_name, record) ==
    LET record_name == CommandsRecordName(record.name, zone_name)
        import_name == IF record_name = <<>> THEN zone_name
                       ELSE record_name \o Dot \o zone_name
    IN  zone_id \o <<"_">> \o import_name \o <<"_">> \o record.type

Command(to, id) == [k |-> "terraform import", to |-> to, id |-> id]
Heading(k, v) == [k |-> k, to |-> v, id |-> <<>>]

\* generate_import_commands, sections 2 and 3 of what it prints.
PrintedCommands(zone_infos) ==
    LET existing == SelectSeq(zone_infos, LAMBDA z : z.existing)
        ZoneCommand(z) == Command(ZoneAddress(ZoneModuleOf(z), z.name), z.id)
        RecordCommand(z, r) ==
            Command(RecordAddress(RecordsModuleOf(z),
                                  TerraformKey(CommandsRecordName(r.name, z.name), r.type)),
                    CommandImportIdentifier(z.id, z.name, r))
        RecordCommands(z) ==
            LET records == ImportableRecords(z)
            IN  <<Heading("# Records for ", z.name)>>
                \o [i \in 1..Len(records) |-> RecordCommand(z, records[i])]
    IN  <<Heading("2. Import the zones:", <<>>)>>
        \o [i \in 1..Len(existing) |-> ZoneCommand(existing[i])]
        \o <<Heading("3. Import the DNS records:", <<>>)>>
        \o Flatten([i \in 1..Len(existing) |-> RecordCommands(existing[i])])

(***************************************************************************)
(* The end of run(): a batch has been processed; without dry_run the       *)
(* import blocks are written or the import commands printed.               *)
(***************************************************************************)
\* An imports.tf written by an earlier run for a zone that is listed no more.
LegacyImportsFile ==
    ZoneImportBlock([name |-> <<"o", ".", "g">>, id |-> <<"Z", "0">>,
                     is_subdomain |-> FALSE, has_records |-> FALSE, existing |-> TRUE])

InitImports ==
    /\ listing \in Listings
    /\ importsFile \in {NoFile, LegacyImportsFile}
    /\ importsPrev = NoFile
    /\ lastRun = NoRun
    /\ blocksFor = <<>>
    /\ blocks = <<>>
    /\ printedFor = <<>>
    /\ printed = <<>>
    /\ runs = 0
    /\ TxtIdle
    /\ RelIdle
    /\ MrgIdle
    /\ RunIdle

RunRecord(batch, force, dry_run, import_blocks) ==
    [zones |-> ProcessedZones(batch), force |-> force,
     dry_run |-> dry_run, import_blocks |-> import_blocks]

\* run() with --import-blocks: generate_import_blocks.
ImportBlocksRun(force) ==
    /\ runs < MaxRuns
    /\ \E batch \in Batches :
        LET all_blocks == BuildImportBlocks(ProcessedZones(batch))
        IN  /\ blocksFor' = ProcessedZones(batch)
            /\ blocks' = all_blocks
            /\ importsFile' = ImportsFileContent(importsFile, all_blocks, force)
            /\ lastRun' = RunRecord(batch, force, FALSE, TRUE)
    /\ importsPrev' = importsFile
    /\ runs' = runs + 1
    /\ UNCHANGED <<runVars, listing, printedFor, printed, txtVars, relVars, mrgVars>>

\* run() without --import-blocks: generate_import_commands.
ImportCommandsRun(force) ==
    /\ runs < MaxRuns
    /\ \E batch \in Batches :
        /\ printedFor' = ProcessedZones(batch)
        /\ printed' = PrintedCommands(ProcessedZones(batch))
        /\ lastRun' = RunRecord(batch, force, FALSE, FALSE)
    /\ importsPrev' = importsFile
    /\ runs' = runs + 1
    /\ UNCHANGED <<runVars, listing, importsFile, blocksFor, blocks, txtVars, relVars, mrgVars>>

\* run() with --dry-run: neither is called.
DryRun(force) ==
    /\ runs < MaxRuns
    /\ \E batch \in Batches, import_blocks \in BOOLEAN :
        lastRun' = RunRecord(batch, force, TRUE, import_blocks)
    /\ importsPrev' = importsFile
    /\ runs' = runs + 1
    /\ UNCHANGED <<runVars, listing, importsFile, blocksFor, blocks, printedFor, printed, txtVars, relVars, mrgVars>>

RunImportBlocks == \E force \in BOOLEAN : ImportBlocksRun(force)
RunImportCommands == \E force \in BOOLEAN : ImportCommandsRun(force)
RunDry == \E force \in BOOLEAN : DryRun(force)

NextImports == RunImportBlocks \/ RunImportCommands \/ RunDry

SpecImports == InitImports /\ [][NextImports]_vars

\* The runs made without --force.
RunImportBlocksNoForce == ImportBlocksRun(FALSE)
RunImportCommandsNoForce == ImportCommandsRun(FALSE)
RunDryNoForce == DryRun(FALSE)

NextImportsNoForce == RunImportBlocksNoForce \/ RunImportCommandsNoForce \/ RunDryNoForce

SpecImportsNoForce == InitImports /\ [][NextImportsNoForce]_vars

(***************************************************************************)
(* The binding statements of a text and what they bind.                    *)
(***************************************************************************)
\* The import statements among the lines, in order: each 'to' with its 'id'.
Statements(lines) ==
    LET starts == {i \in 1..Len(lines) :
                      /\ lines[i].k = "import {"
                      /\ i + 2 <= Len(lines)
                      /\ lines[i + 1].k = "  to = "
                      /\ lines[i + 2].k = "  id = "}
        Nth(n) == CHOOSE i \in starts : Cardinality({j \in starts : j < i}) = n - 1
    IN  [n \in 1..Cardinality(starts) |->
            [to |-> lines[Nth(n) + 1].v, id |-> lines[Nth(n) + 2].v]]

IsZoneAddress(to) == \E i \in 1..Len(to) : to[i] = ".aws_route53_zone.this["
IsRecordAddress(to) == \E i \in 1..Len(to) : to[i] = ".aws_route53_record.this["

\* The key of an address: what stands between this[" and "].
KeyOf(to) ==
    LET p == CHOOSE i \in 1..Len(to) :
                to[i] \in {".aws_route53_zone.this[", ".aws_route53_record.this["}
    IN  [i \in 1..(Len(to) - p - 3) |-> to[p + 1 + i]]

\* The identifier a statement binds: its literal read back.
IdValue(id) == HclUnescape(LiteralBody(id))

IsPrefixOf(s, t) == Len(s) <= Len(t) /\ \A i \in 1..Len(s) : s[i] = t[i]

Range(s) == {s[i] : i \in 1..Len(s)}

\* C4 (as stated): the bindings file never holds two statements with the
\* same target address.
C4_NoDuplicateBinding ==
    importsFile # NoFile =>
        LET st == Statements(importsFile)
        IN  \A i, j \in 1..Len(st) : st[i].to = st[j].to => i = j

Overwrites(r) == r.import_blocks /\ r.force /\ ~r.dry_run

C6_ZonesFirst ==
    /\ LET st == Statements(blocks)
       IN  \A i, j \in 1..Len(st) :
              (IsRecordAddress(st[i].to) /\ IsZoneAddress(st[j].to)) => j < i
    /\ LET cmds == SelectSeq(printed, LAMBDA l : l.k = "terraform import")
       IN  \A i, j \in 1..Len(cmds) :
              (IsRecordAddress(cmds[i].to) /\ IsZoneAddress(cmds[j].to)) => j < i

\* What the claim expects for a record set of the listing: its key and the
\* identifier, from the owner name without its trailing dot.
ExpectedBinding(zone_info, rs) ==
    LET owner == IF rs.Name # <<>> /\ rs.Name[Len(rs.Name)] = "."
                 THEN [i \in 1..(Len(rs.Name) - 1) |-> rs.Name[i]]
                 ELSE rs.Name
    IN  [key |-> RelAsAmended(owner, zone_info.name) \o <<" ">> \o rs.Type,
         id |-> zone_info.id \o <<"_">> \o owner \o <<"_">> \o rs.Type]

ExpectedBindings(zone_info) ==
    LET sets == SelectSeq(listing[zone_info.id], LAMBDA rs : rs.Type \notin {TypeNS, TypeSOA})
    IN  [i \in 1..Len(sets) |-> ExpectedBinding(zone_info, sets[i])]

\* C7: the record bindings planned by generate_import_blocks are, zone by
\* zone and in listing order, one per record set that is not NS or SOA,
\* with key "{relativeName} {type}" and identifier
\* {zoneId}_{owner without trailing dot}_{type}.
C7_BindingIdentity ==
    LET st == SelectSeq(Statements(blocks), LAMBDA b : IsRecordAddress(b.to))
        planned == [i \in 1..Len(st) |-> [key |-> KeyOf(st[i].to), id |-> IdValue(st[i].id)]]
    IN  planned = Flatten([i \in 1..Len(blocksFor) |-> ExpectedBindings(blocksFor[i])])

\* Bindings were planned for a.b holding an apex A, an A at \100, an NS
\* below the apex and a TXT owned outside the zone.
C7_Witness ==
    /\ Len(blocksFor) >= 1
    /\ blocksFor[1].id = <<"Z", "1">>
    /\ listing[<<"Z", "1">>] = OddListing(<<"a", ".", "b">>)
    /\ \E i \in 1..Len(blocks) :
          /\ blocks[i].k = "  id = "
          /\ IdValue(blocks[i].v) =
                <<"Z", "1", "_">> \o EscapedAt \o <<".", "a", ".", "b", "_", "A">>

BoundPairs(st) == {<<st[i].to, st[i].id>> : i \in 1..Len(st)}

\* C8 (as stated): for the same processed zones, the printed commands bind
\* the same (target address, identifier) pairs as the planned statements.
C8_ModeEquivalence ==
    (blocksFor # <<>> /\ blocksFor = printedFor) =>
        LET st == Statements(blocks)
            cmds == SelectSeq(printed, LAMBDA l : l.k = "terraform import")
        IN  BoundPairs([i \in 1..Len(st) |-> [to |-> st[i].to, id |-> IdValue(st[i].id)]])
            = BoundPairs(cmds)

(***************************************************************************)
(* The outputs files: root/zones/outputs.tf and root/outputs.tf.           *)
(***************************************************************************)
AllZones == <<"a", "l", "l", "_", "z", "o", "n", "e", "s">>

ZoneIdValue(zone_module, zone_name) ==
    <<"module.">> \o zone_module \o <<".route53_zone_zone_id[">>
        \o <<Quote>> \o zone_name \o <<Quote>> \o <<"]">>

NameServersValue(zone_module, zone_name) ==
    <<"module.">> \o zone_module \o <<".route53_zone_name_servers[">>
        \o <<Quote>> \o zone_name \o <<Quote>> \o <<"]">>

RecordsValue(records_module, has_records) ==
    IF has_records
    THEN <<"module.">> \o records_module \o <<".route53_record_name">>
    ELSE <<"{}">>

\* generate_zone_output_block
GenerateZoneOutputBlock(zone_name, module_name, is_subdomain, has_records) ==
    LET output_name == SanitizeModuleName(zone_name)
        zone_module == IF is_subdomain THEN module_name \o <<"_subdomain_zone">>
                       ELSE module_name
        records_module == IF is_subdomain THEN module_name \o <<"_subdomain_zone_records">>
                          ELSE module_name \o <<"_records">>
    IN  << Line("# Output {} details", zone_name),
           Line("output ", output_name),
           Line("  description = ", <<"Details for ">> \o zone_name),
           Line("  value = {", <<>>),
           Line("    zone_id      = ", ZoneIdValue(zone_module, zone_name)),
           Line("    name_servers = ", NameServersValue(zone_module, zone_name)),
           Line("    records      = ", RecordsValue(records_module, has_records)),
           Line("  }", <<>>),
           Line("}", <<>>) >>

\* The lines of all_zones_entry, the fragment of a zone in "all_zones".
AllZonesEntry(zone_info) ==
    LET module_name == SanitizeModuleName(zone_info.name)
        zone_module == IF zone_info.is_subdomain THEN module_name \o <<"_subdomain_zone">>
                       ELSE module_name
        records_module == IF zone_info.is_subdomain
                          THEN module_name \o <<"_subdomain_zone_records">>
                          ELSE module_name \o <<"_records">>
    IN  << Line("    {} = {", module_name),
           Line("      zone_id      = ", ZoneIdValue(zone_module, zone_info.name)),
           Line("      name_servers = ", NameServersValue(zone_module, zone_info.name)),
           Line("      records      = ", RecordsValue(records_module, zone_info.has_records)),
           Line("    }", <<>>) >>

\* new_output_blocks: each zone's block and an empty line.
NewOutputBlocks(zones) ==
    Flatten([i \in 1..Len(zones) |->
                GenerateZoneOutputBlock(zones[i].name, SanitizeModuleName(zones[i].name),
                                        zones[i].is_subdomain, zones[i].has_records)
                \o <<BlankLine>>])

\* _generate_full_zones_outputs_file
GenerateFullZonesOutputsFile(zones) ==
    NewOutputBlocks(zones)
    \o << Line("# Combined output of all zones", <<>>),
          Line("output ", AllZones),
          Line("  description = ", <<"Combined information for all zones">>),
          Line("  value = {", <<>>) >>
    \o Flatten([i \in 1..Len(zones) |-> AllZonesEntry(zones[i])])
    \o << Line("  }", <<>>), Line("}", <<>>) >>

\* The names matched by output\s+"([^"]+)" in a text.
OutputNames(file) ==
    IF file = NoFile THEN {}
    ELSE {file[i].v : i \in {j \in 1..Len(file) : file[j].k = "output "}}

\* parse_zones_outputs_file: all_zones_content, the names the pattern
\* (\w+)\s*=\s*{ finds in what the pattern
\* output\s+"all_zones"\s*{[^}]*value\s*=\s*{([^}]*)} captures: the text
\* between a value = { that follows the first output "all_zones" with no
\* closing brace in between and the next closing brace.
AllZonesContent(file) ==
    IF file = NoFile THEN {}
    ELSE LET n == Len(file)
             HasBrace(l) == l.k \in {"}", "  }", "    }"} \/ l.v = <<"{}">>
             heads == {i \in 1..n : file[i].k = "output " /\ file[i].v = AllZones}
             Values(i) == {j \in (i + 1)..n :
                              /\ file[j].k = "  value = {"
                              /\ \A m \in (i + 1)..(j - 1) : ~HasBrace(file[m])
                              /\ \E m \in (j + 1)..n : HasBrace(file[m])}
             matching == {i \in heads : Values(i) # {}}
         IN  IF matching = {} THEN {}
             ELSE LET i == CHOOSE h \in matching : \A g \in matching : h <= g
                      j == CHOOSE v \in Values(i) : \A w \in Values(i) : w <= v
                      stop == CHOOSE m \in (j + 1)..n :
                                  /\ HasBrace(file[m])
                                  /\ \A q \in (j + 1)..(m - 1) : ~HasBrace(file[q])
                  IN  {file[m].v : m \in {q \in (j + 1)..(stop - 1) :
                                             file[q].k \in {"    {} = {", "      {} = {"}}}
                      \cup (IF file[stop].v = <<"{}">>
                            THEN {<<"r", "e", "c", "o", "r", "d", "s">>} ELSE {})

\* parse_zones_outputs_file
ParseZonesOutputsFile(file) ==
    [existing_zones |-> OutputNames(file) \ {AllZones},
     all_zones_content |-> AllZonesContent(file)]

\* zones_to_add: the processed zones whose output name is not in the file.
ZonesToAdd(zone_infos, existing_zones) ==
    SelectSeq(zone_infos, LAMBDA z : SanitizeModuleName(z.name) \notin existing_zones)

Reverse(s) == [i \in 1..Len(s) |-> s[Len(s) + 1 - i]]

\* 0, or the number of the first line that holds output "all_zones".
FindAllZones(content) ==
    LET hits == {i \in 1..Len(content) : content[i].k = "output " /\ content[i].v = AllZones}
    IN  IF hits = {} THEN 0 ELSE CHOOSE i \in hits : \A j \in hits : i <= j

\* 0, or the number of the last line that holds the three characters '  }'.
RFindValueEnd(section) ==
    LET hits == {i \in 1..Len(section) : section[i].k \in {"  }", "    }"}}
    IN  IF hits = {} THEN 0 ELSE CHOOSE i \in hits : \A j \in hits : j <= i

\* The loop over all_zones_additions: every entry and a newline is put at
\* the same place value_end, so the entries end up in reverse order; when
\* '  }' is found inside the line '    }', the line is cut after its first
\* two blanks.
InsertAllZonesEntries(section, zones_to_add) ==
    LET value_end == RFindValueEnd(section)
        entries == Flatten(Reverse([i \in 1..Len(zones_to_add) |-> AllZonesEntry(zones_to_add[i])]))
    IN  IF value_end = 0 THEN section
        ELSE IF section[value_end].k = "  }"
        THEN SubSeq(section, 1, value_end - 1) \o entries
                \o SubSeq(section, value_end, Len(section))
        ELSE SubSeq(section, 1, value_end - 1)
                \o <<Line("      {} = {", entries[1].v)>> \o Tail(entries)
                \o <<Line("  }", <<>>)>>
                \o SubSeq(section, value_end + 1, Len(section))

\* update_zones_outputs_file
UpdateZonesOutputsFile(file, zone_infos, dry_run) ==
    LET parsed == ParseZonesOutputsFile(file)
        zones_to_add == ZonesToAdd(zone_infos, parsed.existing_zones)
        existing_content == IF file = NoFile THEN <<BlankLine>> ELSE file
        all_zones_pos == FindAllZones(existing_content)
    IN  IF zone_infos = <<>> \/ zones_to_add = <<>> \/ dry_run THEN file
        ELSE IF existing_content = <<BlankLine>>
        THEN GenerateFullZonesOutputsFile(zones_to_add)
        ELSE IF all_zones_pos > 1
        THEN RStripLines(SubSeq(existing_content, 1, all_zones_pos - 1))
                \o <<BlankLine>>
                \o RStripLines(NewOutputBlocks(zones_to_add))
                \o <<BlankLine>>
                \o InsertAllZonesEntries(
                      SubSeq(existing_content, all_zones_pos, Len(existing_content)),
                      zones_to_add)
        ELSE RStripLines(existing_content) \o <<BlankLine>>
                \o GenerateFullZonesOutputsFile(zones_to_add)

\* parse_root_outputs_file
ExistingRootOutputs(file) == OutputNames(file)

RootOutputName(zone_name) == SanitizeModuleName(zone_name) \o <<"_details">>

\* zones_to_add: the processed zones whose name with _details is not in the file.
RootZonesToAdd(zone_infos, existing_outputs) ==
    SelectSeq(zone_infos, LAMBDA z : RootOutputName(z.name) \notin existing_outputs)

RootOutputBlock(zone_info) ==
    << Line("output ", RootOutputName(zone_info.name)),
       Line("  description = ", <<"Details for ">> \o zone_info.name),
       Line("  value = module.zones.", SanitizeModuleName(zone_info.name)),
       Line("}", <<>>),
       BlankLine >>

\* The text update_root_outputs_file starts from when the file is absent.
RootBootstrap ==
    << Line("output ", <<"zones">>),
       Line("  description = ", <<"All Route53 zone information">>),
       Line("  value = module.zones.", AllZones),
       Line("}", <<>>),
       BlankLine,
       BlankLine >>

\* A faulty variant of UpdateRootOutputsFile: the file is written in a dry run
\* as well.
UpdateRootOutputsFileInDryRun(file, zone_infos, dry_run) ==
    LET zones_to_add == RootZonesToAdd(zone_infos, ExistingRootOutputs(file))
        existing_content == IF file = NoFile THEN RootBootstrap ELSE file
    IN  IF zone_infos = <<>> \/ zones_to_add = <<>> THEN file
        ELSE RStripLines(existing_content) \o <<BlankLine>>
                \o Flatten([i \in 1..Len(zones_to_add) |-> RootOutputBlock(zones_to_add[i])])

\* update_root_outputs_file
UpdateRootOutputsFile(file, zone_infos, dry_run) ==
    LET zones_to_add == RootZonesToAdd(zone_infos, ExistingRootOutputs(file))
        existing_content == IF file = NoFile THEN RootBootstrap ELSE file
    IN  IF zone_infos = <<>> \/ zones_to_add = <<>> \/ dry_run THEN file
        ELSE RStripLines(existing_content) \o <<BlankLine>>
                \o Flatten([i \in 1..Len(zones_to_add) |-> RootOutputBlock(zones_to_add[i])])

(***************************************************************************)
(* Runs of run() up to the update of the two outputs files.                *)
(***************************************************************************)
\* A zone that is written in the files and is not in the inventory.
KeptZone == [name |-> <<"x">>, is_subdomain |-> FALSE, has_records |-> TRUE]
ExtraZone == [name |-> <<"e">>, is_subdomain |-> FALSE, has_records |-> FALSE]

\* root/zones/outputs.tf as an earlier run for zone x wrote it.
ZonesGenerated == GenerateFullZonesOutputsFile(<<KeptZone>>)

\* The same with a further entry written by hand after "all_zones".
ZonesWithTrailingEntry ==
    ZonesGenerated \o <<BlankLine>>
        \o GenerateZoneOutputBlock(ExtraZone.name, SanitizeModuleName(ExtraZone.name),
                                   FALSE, FALSE)
        \o <<BlankLine>>

\* A file of named entries without "all_zones".
ZonesNamedOnly ==
    GenerateZoneOutputBlock(KeptZone.name, SanitizeModuleName(KeptZone.name), FALSE, TRUE)
        \o <<BlankLine>>

\* A file that starts with output "all_zones".
ZonesAllZonesFirst ==
    << Line("output ", AllZones),
       Line("  value = {", <<>>) >>
    \o AllZonesEntry(KeptZone)
    \o << Line("  }", <<>>), Line("}", <<>>), BlankLine >>

\* A file whose "all_zones" holds the key a_b and that has no entry a_b.
ZonesFragmentOnly ==
    << Line("# Combined output of all zones", <<>>),
       Line("output ", AllZones),
       Line("  value = {", <<>>) >>
    \o AllZonesEntry([name |-> <<"a", ".", "b">>, is_subdomain |-> FALSE, has_records |-> TRUE])
    \o << Line("  }", <<>>), Line("}", <<>>) >>

RootGenerated ==
    RStripLines(RootBootstrap) \o <<BlankLine>> \o RootOutputBlock(KeptZone)

\* The two outputs files a run can find.
OutputsFiles ==
    { <<NoFile, NoFile>>,
      <<<<BlankLine>>, <<BlankLine>>>>,
      <<ZonesGenerated, RootGenerated>>,
      <<ZonesWithTrailingEntry, RootGenerated>>,
      <<ZonesNamedOnly, NoFile>>,
      <<ZonesAllZonesFirst, RootGenerated>>,
      <<ZonesFragmentOnly, <<BlankLine, BlankLine>>>> }

InitMerge ==
    /\ listing \in Listings
    /\ importsFile = NoFile
    /\ importsPrev = NoFile
    /\ lastRun = NoRun
    /\ blocksFor = <<>>
    /\ blocks = <<>>
    /\ printedFor = <<>>
    /\ printed = <<>>
    /\ runs = 0
    /\ \E files \in OutputsFiles :
        /\ zonesOutputs = files[1]
        /\ rootOutputs = files[2]
    /\ zonesPrev = NoFile
    /\ rootPrev = NoFile
    /\ merge = NoMerge
    /\ mergePrev = NoMerge
    /\ merges = 0
    /\ TxtIdle
    /\ RelIdle
    /\ RunIdle

\* run() with processed > 0: update_zones_outputs_file and then
\* update_root_outputs_file.
UpdateOutputsRun(dry_run) ==
    /\ merges < MaxRuns
    /\ \E batch \in Batches :
        /\ zonesOutputs' = UpdateZonesOutputsFile(zonesOutputs, ProcessedZones(batch), dry_run)
        /\ rootOutputs' = UpdateRootOutputsFile(rootOutputs, ProcessedZones(batch), dry_run)
        /\ merge' = [zones |-> ProcessedZones(batch), dry_run |-> dry_run]
    /\ zonesPrev' = zonesOutputs
    /\ rootPrev' = rootOutputs
    /\ mergePrev' = merge
    /\ merges' = merges + 1
    /\ UNCHANGED <<runVars, txtVars, relVars, impVars>>

UpdateOutputs == UpdateOutputsRun(FALSE)
UpdateOutputsDryRun == UpdateOutputsRun(TRUE)

NextMerge == UpdateOutputs \/ UpdateOutputsDryRun

SpecMerge == InitMerge /\ [][NextMerge]_vars

(***************************************************************************)
(* The entries of an outputs file.                                         *)
(***************************************************************************)
\* The number of the line that closes the entry opened at line i.
EntryEnd(doc, i) ==
    LET closes == {j \in i..Len(doc) : doc[j].k = "}"}
    IN  IF closes = {} THEN Len(doc) ELSE CHOOSE j \in closes : \A m \in closes : j <= m

\* The named entries of a file in order, each with its lines.
Entries(doc) ==
    IF doc = NoFile THEN <<>>
    ELSE LET heads == SelectSeq([i \in 1..Len(doc) |-> i], LAMBDA i : doc[i].k = "output ")
         IN  [n \in 1..Len(heads) |->
                [name |-> doc[heads[n]].v,
                 lines |-> SubSeq(doc, heads[n], EntryEnd(doc, heads[n]))]]

\* The entries other than the combined one.
NamedEntries(doc) == SelectSeq(Entries(doc), LAMBDA e : e.name # AllZones)

\* The fragments held by the entries called all_zones, in order: each key
\* with its lines.
Fragments(doc) ==
    LET combined == Flatten([n \in 1..Len(Entries(doc)) |->
                                IF Entries(doc)[n].name = AllZones
                                THEN Entries(doc)[n].lines ELSE <<>>])
        IsKey(l) == l.k \in {"    {} = {", "      {} = {"}
        heads == SelectSeq([i \in 1..Len(combined) |-> i], LAMBDA i : IsKey(combined[i]))
        End(i) == LET closes == {j \in i..Len(combined) : combined[j].k = "    }"}
                  IN  IF closes = {} THEN Len(combined)
                      ELSE CHOOSE j \in closes : \A m \in closes : j <= m
    IN  [n \in 1..Len(heads) |->
            [name |-> combined[heads[n]].v,
             lines |-> Tail(SubSeq(combined, heads[n], End(heads[n])))]]

\* s is t with elements left out.
RECURSIVE IsSubsequence(_, _)
IsSubsequence(s, t) ==
    IF s = <<>> THEN TRUE
    ELSE IF t = <<>> THEN FALSE
    ELSE IF Head(s) = Head(t) THEN IsSubsequence(Tail(s), Tail(t))
    ELSE IsSubsequence(s, Tail(t))

Distinct(s) == \A i, j \in 1..Len(s) : s[i].name = s[j].name => i = j

\* C1: a run that updates the outputs files for the processed zones of the
\* run before it, neither of them a dry run, leaves both files as the run
\* before left them.
C1_MergeIdempotent ==
    (/\ merges >= 2
     /\ ~merge.dry_run
     /\ ~mergePrev.dry_run
     /\ merge.zones = mergePrev.zones)
    => (zonesOutputs = zonesPrev /\ rootOutputs = rootPrev)

\* C2: every named entry and every fragment of the combined entry that the
\* files held before an update is in them after it, with the same lines and
\* in the same order.
C2_MergeAdditive ==
    merges >= 1 =>
        /\ IsSubsequence(NamedEntries(zonesPrev), NamedEntries(zonesOutputs))
        /\ IsSubsequence(Fragments(zonesPrev), Fragments(zonesOutputs))
        /\ IsSubsequence(Entries(rootPrev), Entries(rootOutputs))

\* C3: root/zones/outputs.tf never holds two entries of one name, and its
\* combined entry never holds two fragments of one key.
C3_NoDuplicateEntries ==
    /\ Distinct(Entries(zonesOutputs))
    /\ Distinct(Fragments(zonesOutputs))

(***************************************************************************)
(* The per-zone artifact: generate_terraform_content.                      *)
(***************************************************************************)
\* The lines of one entry of the records list.
RecordEntry(record, zone_name) ==
    LET record_name == ContentRecordName(record.name, zone_name)
        formatted_records ==
            [i \in 1..Len(record.records) |->
                IF record.type = TypeTXT THEN FormatTxtValue(record.records[i])
                ELSE <<Quote>> \o record.records[i] \o <<Quote>>]
    IN  << Line("    {", <<>>),
           Line("      name = ", <<Quote>> \o record_name \o <<Quote>>),
           Line("      type = ", <<Quote>> \o record.type \o <<Quote>>) >>
        \o (IF ~record.alias.absent
            THEN << Line("      alias = {", <<>>),
                    Line("        name    = ", <<Quote>> \o record.alias.name \o <<Quote>>),
                    Line("        zone_id = ", <<Quote>> \o record.alias.zone_id \o <<Quote>>),
                    Line("        evaluate_target_health = ",
                         IF record.alias.evaluate_target_health
                         THEN <<"true">> ELSE <<"false">>),
                    Line("      }", <<>>) >>
            ELSE (IF record.ttl \notin {NoTTL, <<"0">>}
                  THEN <<Line("      ttl  = ", record.ttl)>> ELSE <<>>)
                 \o (IF record.records = <<>> THEN <<>>
                     ELSE IF Len(formatted_records) = 1
                     THEN <<Line("      records = [{}]", formatted_records[1])>>
                     ELSE <<Line("      records = [", <<>>)>>
                          \o [i \in 1..Len(formatted_records) |->
                                Line("        {},", formatted_records[i])]
                          \o <<Line("      ]", <<>>)>>))
        \o <<Line("    },", <<>>)>>

\* generate_terraform_content, "For subdomains, create delegation set first".
DelegationSetBlock(zone_name, module_name) ==
    << Line("# Create delegation set for subdomain", <<>>),
       Line("module ", module_name \o <<"_delegation_set">>),
       Line("  source  = ", <<"terraform-aws-modules/route53/aws//modules/delegation-sets">>),
       Line("  version = ", <<"~> 5.0">>),
       BlankLine,
       Line("  delegation_sets = {", <<>>),
       Line("    \"{}_set\" = {", module_name),
       Line("      reference_name = ", zone_name),
       Line("    }", <<>>),
       Line("  }", <<>>),
       Line("}", <<>>),
       BlankLine >>

\* generate_terraform_content, "Create the zone".
ZoneBlock(zone, module_name, is_sub) ==
    << Line(IF is_sub THEN "# Create the subdomain zone" ELSE "# Create the zone", <<>>),
       Line("module ", module_name \o (IF is_sub THEN <<"_subdomain_zone">> ELSE <<>>)),
       Line("  source  = ", <<"terraform-aws-modules/route53/aws//modules/zones">>),
       Line("  version = ", <<"~> 5.0">>),
       BlankLine,
       Line("  zones = {", <<>>),
       Line("    \"{}\" = {", zone.name),
       Line("      comment = ",
            IF zone.comment # <<>> THEN zone.comment
            ELSE zone.name \o <<" managed by Terraform">>) >>
    \o (IF is_sub THEN <<Line("      delegation_set_id = ", module_name)>> ELSE <<>>)
    \o << Line("      tags = merge(", <<>>),
          Line("        var.common_tags,", <<>>),
          Line("        {", <<>>),
          Line("          Environment = var.environment", <<>>),
          Line("          Zone        = ", zone.name),
          Line("        }", <<>>),
          Line("      )", <<>>),
          Line("    }", <<>>),
          Line("  }", <<>>) >>
    \o (IF is_sub
        THEN <<BlankLine, Line("  depends_on = ", module_name \o <<"_delegation_set">>)>>
        ELSE <<>>)
    \o <<Line("}", <<>>), BlankLine>>

\* A faulty variant of RecordsBlock: the declaration is emitted for an empty
\* record set as well.
RecordsBlockAlways(zone_name, module_name, is_sub, records) ==
    << Line("# Create zone records", <<>>),
       Line("module ", module_name \o (IF is_sub THEN <<"_subdomain_zone">> ELSE <<>>)
                          \o <<"_records">>),
       Line("  source  = ", <<"terraform-aws-modules/route53/aws//modules/records">>),
       Line("  version = ", <<"~> 5.0">>),
       BlankLine,
       Line("  zone_name = ", zone_name),
       BlankLine,
       Line("  records = [", <<>>) >>
    \o Flatten([i \in 1..Len(records) |-> RecordEntry(records[i], zone_name)])
    \o << Line("  ]", <<>>), BlankLine, Line("}", <<>>), BlankLine >>

\* generate_terraform_content, "Create records module only if there are
\* records".
RecordsBlock(zone_name, module_name, is_sub, records) ==
    IF records # <<>>
    THEN << Line("# Create zone records", <<>>),
            Line("module ", module_name \o (IF is_sub THEN <<"_subdomain_zone">> ELSE <<>>)
                               \o <<"_records">>),
            Line("  source  = ", <<"terraform-aws-modules/route53/aws//modules/records">>),
            Line("  version = ", <<"~> 5.0">>),
            BlankLine,
            Line("  zone_name = ", zone_name),
            BlankLine,
            Line("  records = [", <<>>) >>
         \o Flatten([i \in 1..Len(records) |-> RecordEntry(records[i], zone_name)])
         \o << Line("  ]", <<>>), BlankLine, Line("}", <<>>), BlankLine >>
    ELSE <<>>

\* A faulty variant of DelegationRecordsBlock: the record is named by the
\* subdomain's first label.
DelegationRecordsBlockFirstLabel(zone_name, module_name, parent_zone) ==
    << Line("# Add NS records to the parent zone for delegation", <<>>),
       Line("module ", module_name \o <<"_delegation_records">>),
       Line("  source  = ", <<"terraform-aws-modules/route53/aws//modules/records">>),
       Line("  version = ", <<"~> 5.0">>),
       BlankLine,
       Line("  zone_name = ", parent_zone),
       BlankLine,
       Line("  records = [", <<>>),
       Line("    {", <<>>),
       Line("      name = ", <<Quote>> \o SubSeq(zone_name, 1, 1) \o <<Quote>>),
       Line("      type = ", <<Quote>> \o TypeNS \o <<Quote>>),
       Line("      ttl  = ", <<"3", "0", "0">>),
       Line("      records = ", NameServersValue(module_name \o <<"_subdomain_zone">>, zone_name)),
       Line("    }", <<>>),
       Line("  ]", <<>>),
       BlankLine,
       Line("}", <<>>) >>

\* generate_terraform_content, "For subdomains, add NS delegation records to
\* parent zone".
DelegationRecordsBlock(zone_name, module_name, parent_zone) ==
    LET subdomain_prefix == SubSeq(zone_name, 1, Len(zone_name) - Len(parent_zone) - 1)
    IN  << Line("# Add NS records to the parent zone for delegation", <<>>),
           Line("module ", module_name \o <<"_delegation_records">>),
           Line("  source  = ", <<"terraform-aws-modules/route53/aws//modules/records">>),
           Line("  version = ", <<"~> 5.0">>),
           BlankLine,
           Line("  zone_name = ", parent_zone),
           BlankLine,
           Line("  records = [", <<>>),
           Line("    {", <<>>),
           Line("      name = ", <<Quote>> \o subdomain_prefix \o <<Quote>>),
           Line("      type = ", <<Quote>> \o TypeNS \o <<Quote>>),
           Line("      ttl  = ", <<"3", "0", "0">>),
           Line("      records = ",
                NameServersValue(module_name \o <<"_subdomain_zone">>, zone_name)),
           Line("    }", <<>>),
           Line("  ]", <<>>),
           BlankLine,
           Line("}", <<>>) >>

\* generate_terraform_content; parent_zone is a zone name or NoParent.
GenerateTerraformContent(zone, records, parent_zone) ==
    LET zone_name == zone.name
        module_name == SanitizeModuleName(zone_name)
        is_sub == parent_zone \notin {NoParent, <<>>}
    IN  << Line("# Terraform configuration for ", zone_name),
           Line("# Generated automatically - review before applying", <<>>),
           BlankLine >>
        \o (IF is_sub THEN DelegationSetBlock(zone_name, module_name) ELSE <<>>)
        \o ZoneBlock(zone, module_name, is_sub)
        \o RecordsBlock(zone_name, module_name, is_sub, records)
        \o (IF is_sub THEN DelegationRecordsBlock(zone_name, module_name, parent_zone)
            ELSE <<>>)

(***************************************************************************)
(* What a call of run() finds: the hosted zones, their record sets and the *)
(* files under root/.                                                      *)
(***************************************************************************)
HostedZone(id, name, private, comment) ==
    [id |-> id, name |-> name, private |-> private, comment |-> comment]

NameAB == <<"a", ".", "b">>
NameSAB == <<"s", ".", "a", ".", "b">>
NameTSAB == <<"t", ".", "s", ".", "a", ".", "b">>
NameX == <<"x">>

\* a.b, then a zone with a comment, a zone under a.b and a zone under both.
InventoryPlain ==
    << HostedZone(<<"Z", "1">>, NameAB, FALSE, <<>>),
       HostedZone(<<"Z", "2">>, <<"a", "-", "b">>, FALSE, <<"c">>),
       HostedZone(<<"Z", "3">>, NameSAB, FALSE, <<>>),
       HostedZone(<<"Z", "4">>, NameTSAB, FALSE, <<>>) >>

\* The zone under a.b first, a.b as a private zone, and the zone under both.
InventoryNested ==
    << HostedZone(<<"Z", "3">>, NameSAB, FALSE, <<>>),
       HostedZone(<<"Z", "1">>, NameAB, TRUE, <<>>),
       HostedZone(<<"Z", "4">>, NameTSAB, FALSE, <<>>) >>

\* Two hosted zones of one name.
InventoryTwins ==
    << HostedZone(<<"Z", "1">>, NameAB, FALSE, <<>>),
       HostedZone(<<"Z", "2">>, NameAB, FALSE, <<>>) >>

\* The listing of the zones raises ClientError on its second page.
InventoryFailing ==
    << HostedZone(<<"Z", "1">>, NameAB, FALSE, <<>>), ClientError >>

Inventories == {InventoryPlain, InventoryNested, InventoryTwins, InventoryFailing, <<>>}

\* A zone's record sets with values: the apex NS and SOA, an A with two
\* values, a TXT, an alias and an A with TTL 0.
ValuedListing(zone_name) ==
    << ValuedRecordSet(zone_name \o Dot, TypeNS, <<"6", "0">>, <<<<"n">>>>),
       ValuedRecordSet(zone_name \o Dot, TypeSOA, <<"6", "0">>, <<<<"n">>>>),
       ValuedRecordSet(zone_name \o Dot, TypeA, <<"6", "0">>, <<<<"1">>, <<"2">>>>),
       ValuedRecordSet(<<"w">> \o Dot \o zone_name \o Dot, TypeTXT, <<"6", "0">>,
                       <<<<Quote, "a", Backslash, Quote>>>>),
       AliasRecordSet(<<"l">> \o Dot \o zone_name \o Dot, TypeA, <<"e", ".", "c", ".">>),
       ValuedRecordSet(<<"o">> \o Dot \o zone_name \o Dot, TypeA, <<"0">>, <<<<"1">>>>) >>

\* Only the apex NS and SOA.
ApexListing(zone_name) ==
    << ValuedRecordSet(zone_name \o Dot, TypeNS, <<"6", "0">>, <<<<"n">>>>),
       ValuedRecordSet(zone_name \o Dot, TypeSOA, <<"6", "0">>, <<<<"n">>>>) >>

\* The listing raises ClientError at once, or after a first page of three.
FailingListing(zone_name) == <<ClientError>> \o ValuedListing(zone_name)
FailingLaterListing(zone_name) ==
    SubSeq(ValuedListing(zone_name), 1, 3) \o <<ClientError>>
        \o SubSeq(ValuedListing(zone_name), 4, Len(ValuedListing(zone_name)))

\* The apex NS and SOA, and the NS record set that delegates s.<zone>.
DelegatingListing(zone_name) ==
    ApexListing(zone_name)
        \o << ValuedRecordSet(<<"s">> \o Dot \o zone_name \o Dot, TypeNS, <<"6", "0">>,
                              <<<<"n">>>>) >>

RunZoneIds == {<<"Z", "1">>, <<"Z", "2">>, <<"Z", "3">>, <<"Z", "4">>}

\* The record sets of the zones, by zone id, for a choice of shapes.
RunListingOf(zones, choice) ==
    [id \in RunZoneIds |->
        IF \A k \in 1..Len(zones) : IsClientError(zones[k]) \/ zones[k].id # id THEN <<>>
        ELSE LET k == CHOOSE j \in 1..Len(zones) : ~IsClientError(zones[j]) /\ zones[j].id = id
                 shape == choice[(k % Len(choice)) + 1]
             IN  IF shape = "valued" THEN ValuedListing(zones[k].name)
                 ELSE IF shape = "apex" THEN ApexListing(zones[k].name)
                 ELSE IF shape = "odd" THEN OddListing(zones[k].name)
                 ELSE IF shape = "delegating" THEN DelegatingListing(zones[k].name)
                 ELSE IF shape = "failing" THEN FailingListing(zones[k].name)
                 ELSE FailingLaterListing(zones[k].name)]

RunListingChoices == {<<"valued", "apex", "odd">>, <<"failing", "valued", "failing later">>}

(***************************************************************************)
(* run(): the calls it makes, one step each.                               *)
(***************************************************************************)
RunZoneNames == {NameAB, <<"a", "-", "b">>, NameSAB, NameTSAB}

\* A per-zone artifact written by hand for a.b.
HandWritten == <<Line("# a.b by hand", <<>>), BlankLine>>

\* The files under root/: none, or the artifact of a.b with the outputs
\* files and imports.tf of an earlier run for other zones.
Files(zone_files, zones_outputs, root_outputs, imports_file) ==
    [zoneFiles |-> zone_files, zonesOutputs |-> zones_outputs,
     rootOutputs |-> root_outputs, importsFile |-> imports_file]

FilesAbsent == Files([n \in RunZoneNames |-> NoFile], NoFile, NoFile, NoFile)
FilesPresent ==
    Files([n \in RunZoneNames |-> IF n = NameAB THEN HandWritten ELSE NoFile],
          ZonesGenerated, RootGenerated, LegacyImportsFile)

CurrentFiles == Files(zoneFiles, zonesOutputs, rootOutputs, importsFile)

InitRun ==
    /\ inventory \in Inventories
    /\ \E choice \in RunListingChoices : listing = RunListingOf(inventory, choice)
    /\ \E files \in {FilesAbsent, FilesPresent} :
        /\ zoneFiles = files.zoneFiles
        /\ zonesOutputs = files.zonesOutputs
        /\ rootOutputs = files.rootOutputs
        /\ importsFile = files.importsFile
        /\ startFiles = files
    /\ run = NoCall
    /\ runPrev = NoCall
    /\ log = <<>>
    /\ importsPrev = NoFile
    /\ lastRun = NoRun
    /\ blocksFor = <<>>
    /\ blocks = <<>>
    /\ printedFor = <<>>
    /\ printed = <<>>
    /\ runs = 0
    /\ zonesPrev = NoFile
    /\ rootPrev = NoFile
    /\ merge = NoMerge
    /\ mergePrev = NoMerge
    /\ merges = 0
    /\ TxtIdle
    /\ RelIdle

\* What the steps of run() leave alone.
runFrame == <<inventory, listing, importsPrev, lastRun, zonesPrev, rootPrev, merge, mergePrev,
              merges, txtVars, relVars>>

\* One step of the call: what it was, for which zone, and whether it wrote.
Step(op, zone, existed, processed, wrote) ==
    [op |-> op, id |-> zone.id, name |-> zone.name, existed |-> existed,
     processed |-> processed, wrote |-> wrote]

\* main(): the generator is constructed and run() is called.
CallRun ==
    /\ run.pc \in {"idle", "done"}
    /\ runs < MaxRuns
    /\ \E selection \in {<<NoDomain, FALSE>>, <<NoDomain, TRUE>>, <<NameAB, FALSE>>, <<NameX, FALSE>>},
          dry_run \in BOOLEAN, force \in BOOLEAN, import_blocks \in BOOLEAN :
        run' = [NoCall EXCEPT !.pc = "run", !.domain = selection[1],
                              !.all_domains = selection[2], !.dry_run = dry_run,
                              !.force = force, !.import_blocks = import_blocks]
    /\ runPrev' = run
    /\ startFiles' = CurrentFiles
    /\ log' = <<>>
    /\ runs' = runs + 1
    /\ UNCHANGED <<zoneFiles, zonesOutputs, rootOutputs, importsFile, blocksFor, blocks,
                   printedFor, printed, runFrame>>

\* list_hosted_zones: the zones, or exit on ClientError.
ListFails == \E k \in 1..Len(inventory) : IsClientError(inventory[k])

\* run() up to the loop over the zones.
RunListZones ==
    /\ run.pc = "run"
    /\ LET zones == inventory
           named == {k \in 1..Len(zones) : zones[k].name = run.domain}
       IN  run' = IF run.domain = NoDomain /\ ~run.all_domains
                  THEN [run EXCEPT !.pc = "done", !.exit = "exit 1"]
                  ELSE IF ListFails
                  THEN [run EXCEPT !.pc = "done", !.exit = "exit 1"]
                  ELSE IF zones = <<>>
                  THEN [run EXCEPT !.pc = "done", !.exit = "return"]
                  ELSE IF run.domain # NoDomain
                  THEN IF named = {}
                       THEN [run EXCEPT !.pc = "done", !.exit = "exit 1", !.zones = zones]
                       ELSE [run EXCEPT !.pc = "zones", !.zones = zones,
                                 !.targets = <<zones[CHOOSE k \in named : \A j \in named : k <= j]>>]
                  ELSE [run EXCEPT !.pc = "zones", !.zones = zones, !.targets = zones]
    /\ log' = Append(log, Step("list_hosted_zones", NoZone, FALSE, FALSE, FALSE))
    /\ UNCHANGED <<zoneFiles, zonesOutputs, rootOutputs, importsFile, blocksFor, blocks,
                   printedFor, printed, runPrev, startFiles, runs, runFrame>>

\* A faulty variant of RunProcessZone: an existing file is overwritten without
\* --force.
RunProcessZoneOverwriting ==
    /\ run.pc = "zones"
    /\ run.i <= Len(run.targets)
    /\ LET zone == run.targets[run.i]
           zone_name == zone.name
           exists == zoneFiles[zone_name] # NoFile
           records == GetZoneRecords(zone.id, zone_name)
           parent_zone == IsSubdomain(zone_name, run.zones)
           content == GenerateTerraformContent(zone, records, parent_zone)
       IN  IF zone.private
           THEN /\ run' = [run EXCEPT !.i = @ + 1, !.skipped = @ + 1]
                /\ log' = Append(log, Step("process_zone", zone, exists, FALSE, FALSE))
                /\ UNCHANGED zoneFiles
           ELSE /\ run' = [run EXCEPT !.i = @ + 1, !.processed = @ + 1,
                                      !.processed_zones = Append(@, ProcessedZone(zone, run.zones)),
                                      !.generated = [zone |-> zone, records |-> records,
                                                     parent_zone |-> parent_zone,
                                                     content |-> content]]
                /\ log' = Append(log, Step("process_zone", zone, exists, TRUE, ~run.dry_run))
                /\ zoneFiles' = IF run.dry_run THEN zoneFiles
                                ELSE [zoneFiles EXCEPT ![zone_name] = content]
    /\ UNCHANGED <<zonesOutputs, rootOutputs, importsFile, blocksFor, blocks,
                   printedFor, printed, runPrev, startFiles, runs, runFrame>>

\* process_zone for the next zone, and the count that run() keeps of it.
RunProcessZone ==
    /\ run.pc = "zones"
    /\ run.i <= Len(run.targets)
    /\ LET zone == run.targets[run.i]
           zone_name == zone.name
           exists == zoneFiles[zone_name] # NoFile
           records == GetZoneRecords(zone.id, zone_name)
           parent_zone == IsSubdomain(zone_name, run.zones)
           content == GenerateTerraformContent(zone, records, parent_zone)
       IN  IF (exists /\ ~run.force) \/ zone.private
           THEN /\ run' = [run EXCEPT !.i = @ + 1, !.skipped = @ + 1]
                /\ log' = Append(log, Step("process_zone", zone, exists, FALSE, FALSE))
                /\ UNCHANGED zoneFiles
           ELSE /\ run' = [run EXCEPT !.i = @ + 1, !.processed = @ + 1,
                                      !.processed_zones = Append(@, ProcessedZone(zone, run.zones)),
                                      !.generated = [zone |-> zone, records |-> records,
                                                     parent_zone |-> parent_zone,
                                                     content |-> content]]
                /\ log' = Append(log, Step("process_zone", zone, exists, TRUE, ~run.dry_run))
                /\ zoneFiles' = IF run.dry_run THEN zoneFiles
                                ELSE [zoneFiles EXCEPT ![zone_name] = content]
    /\ UNCHANGED <<zonesOutputs, rootOutputs, importsFile, blocksFor, blocks,
                   printedFor, printed, runPrev, startFiles, runs, runFrame>>

\* A faulty variant of RunUpdateZonesOutputs: the update is made as soon as a
\* zone has been processed.
RunUpdateZonesOutputsEarly ==
    /\ run.pc = "zones"
    /\ run.processed > 0
    /\ zonesOutputs' = UpdateZonesOutputsFile(zonesOutputs, run.processed_zones, run.dry_run)
    /\ run' = [run EXCEPT !.pc = "root outputs"]
    /\ log' = Append(log, Step("update_zones_outputs_file", NoZone, zonesOutputs # NoFile, FALSE,
                               zonesOutputs' # zonesOutputs))
    /\ UNCHANGED <<zoneFiles, rootOutputs, importsFile, blocksFor, blocks,
                   printedFor, printed, runPrev, startFiles, runs, runFrame>>

\* After the loop, with zones processed: update_zones_outputs_file.
RunUpdateZonesOutputs ==
    /\ run.pc = "zones"
    /\ run.i > Len(run.targets)
    /\ run.processed > 0
    /\ zonesOutputs' = UpdateZonesOutputsFile(zonesOutputs, run.processed_zones, run.dry_run)
    /\ run' = [run EXCEPT !.pc = "root outputs"]
    /\ log' = Append(log, Step("update_zones_outputs_file", NoZone, zonesOutputs # NoFile, FALSE,
                               zonesOutputs' # zonesOutputs))
    /\ UNCHANGED <<zoneFiles, rootOutputs, importsFile, blocksFor, blocks,
                   printedFor, printed, runPrev, startFiles, runs, runFrame>>

\* ... and then update_root_outputs_file.
RunUpdateRootOutputs ==
    /\ run.pc = "root outputs"
    /\ rootOutputs' = UpdateRootOutputsFile(rootOutputs, run.processed_zones, run.dry_run)
    /\ run' = [run EXCEPT !.pc = "summary"]
    /\ log' = Append(log, Step("update_root_outputs_file", NoZone, rootOutputs # NoFile, FALSE,
                               rootOutputs' # rootOutputs))
    /\ UNCHANGED <<zoneFiles, zonesOutputs, importsFile, blocksFor, blocks,
                   printedFor, printed, runPrev, startFiles, runs, runFrame>>

\* After the loop, with no zone processed: neither is called.
RunSkipOutputs ==
    /\ run.pc = "zones"
    /\ run.i > Len(run.targets)
    /\ run.processed = 0
    /\ run' = [run EXCEPT !.pc = "summary"]
    /\ UNCHANGED <<zoneFiles, zonesOutputs, rootOutputs, importsFile, blocksFor, blocks,
                   printedFor, printed, runPrev, startFiles, runs, log, runFrame>>

\* The summary, and with --import-blocks generate_import_blocks.
RunGenerateImportBlocks ==
    /\ run.pc = "summary"
    /\ run.processed > 0 /\ ~run.dry_run
    /\ run.import_blocks
    /\ LET all_blocks == BuildImportBlocks(run.processed_zones)
       IN  /\ blocksFor' = run.processed_zones
           /\ blocks' = all_blocks
           /\ importsFile' = ImportsFileContent(importsFile, all_blocks, run.force)
    /\ run' = [run EXCEPT !.pc = "done", !.exit = "return"]
    /\ log' = Append(log, Step("generate_import_blocks", NoZone, importsFile # NoFile, FALSE,
                               importsFile' # importsFile))
    /\ UNCHANGED <<zoneFiles, zonesOutputs, rootOutputs, printedFor, printed,
                   runPrev, startFiles, runs, runFrame>>

\* ... and without it generate_import_commands.
RunGenerateImportCommands ==
    /\ run.pc = "summary"
    /\ run.processed > 0 /\ ~run.dry_run
    /\ ~run.import_blocks
    /\ printedFor' = run.processed_zones
    /\ printed' = PrintedCommands(run.processed_zones)
    /\ run' = [run EXCEPT !.pc = "done", !.exit = "return"]
    /\ log' = Append(log, Step("generate_import_commands", NoZone, importsFile # NoFile, FALSE, FALSE))
    /\ UNCHANGED <<zoneFiles, zonesOutputs, rootOutputs, importsFile, blocksFor, blocks,
                   runPrev, startFiles, runs, runFrame>>

\* The summary of a dry run or of a run that processed no zone.
RunReturn ==
    /\ run.pc = "summary"
    /\ ~(run.processed > 0 /\ ~run.dry_run)
    /\ run' = [run EXCEPT !.pc = "done", !.exit = "return"]
    /\ UNCHANGED <<zoneFiles, zonesOutputs, rootOutputs, importsFile, blocksFor, blocks,
                   printedFor, printed, runPrev, startFiles, runs, log, runFrame>>

NextRun ==
    \/ CallRun
    \/ RunListZones
    \/ RunProcessZone
    \/ RunUpdateZonesOutputs
    \/ RunUpdateRootOutputs
    \/ RunSkipOutputs
    \/ RunGenerateImportBlocks
    \/ RunGenerateImportCommands
    \/ RunReturn

SpecRun == InitRun /\ [][NextRun]_vars

(***************************************************************************)
(* The declarations of a per-zone artifact.                                *)
(***************************************************************************)
\* The lines that open a module declaration of the given source.
ModulesOf(content, source) ==
    {i \in 1..(Len(content) - 1) :
        content[i].k = "module " /\ content[i + 1] = Line("  source  = ", <<source>>)}

DelegationSets(content) ==
    ModulesOf(content, "terraform-aws-modules/route53/aws//modules/delegation-sets")
ZoneDeclarations(content) ==
    ModulesOf(content, "terraform-aws-modules/route53/aws//modules/zones")
DelegationRecords(content) ==
    {i \in ModulesOf(content, "terraform-aws-modules/route53/aws//modules/records") :
        content[i].v[Len(content[i].v)] = "_delegation_records"}
RecordsDeclarations(content) ==
    ModulesOf(content, "terraform-aws-modules/route53/aws//modules/records")
        \ DelegationRecords(content)

\* The value of the first line of kind k after line i.
FieldAfter(content, i, k) ==
    LET at == {j \in (i + 1)..Len(content) : content[j].k = k}
    IN  content[CHOOSE j \in at : \A q \in at : j <= q].v

\* The name that is left of "." and the parent's name in the zone's name.
RelativePrefix(zone_name, parent) ==
    CHOOSE p \in {SubSeq(zone_name, 1, n) : n \in 0..Len(zone_name)} :
        p \o Dot \o parent = zone_name

\* C11: the artifact generated for a zone declares a delegation set, before
\* the zone declaration, and a delegation record if and only if a parent zone
\* was detected; the delegation record is declared in the parent's zone name,
\* has type NS, TTL 300 and as name the zone's name without "." and the
\* parent's name.
C11_Delegation ==
    LET g == run.generated
        c == g.content
    IN  g # NoContent =>
            IF g.parent_zone # NoParent
            THEN /\ Cardinality(DelegationSets(c)) = 1
                 /\ Cardinality(ZoneDeclarations(c)) = 1
                 /\ \A d \in DelegationSets(c), z \in ZoneDeclarations(c) : d < z
                 /\ Cardinality(DelegationRecords(c)) = 1
                 /\ \A d \in DelegationRecords(c) :
                        /\ FieldAfter(c, d, "  zone_name = ") = g.parent_zone
                        /\ FieldAfter(c, d, "      name = ")
                             = <<Quote>> \o RelativePrefix(g.zone.name, g.parent_zone) \o <<Quote>>
                        /\ FieldAfter(c, d, "      type = ") = <<Quote, "N", "S", Quote>>
                        /\ FieldAfter(c, d, "      ttl  = ") = <<"3", "0", "0">>
            ELSE DelegationSets(c) = {} /\ DelegationRecords(c) = {}

\* A zone two labels under its detected parent has been generated.
C11_Witness ==
    /\ run.generated.zone.name = NameTSAB
    /\ run.generated.parent_zone = NameAB
    /\ DelegationRecords(run.generated.content) # {}

(***************************************************************************)
(* The zones of a run.                                                     *)
(***************************************************************************)
\* The listed zones, without the place where the listing failed.
ListedZones == SelectSeq(inventory, LAMBDA z : ~IsClientError(z))

\* The zones a run that reached the loop is to handle: every listed zone, or
\* in single-zone mode the first listed zone of the given name.
Targets ==
    IF run.domain = NoDomain THEN ListedZones
    ELSE LET named == {k \in 1..Len(ListedZones) : ListedZones[k].name = run.domain}
         IN  <<ListedZones[CHOOSE k \in named : \A j \in named : k <= j]>>

InLoop == run.pc = "zones"
PastLoop == run.pc \in {"root outputs", "summary"} \/ (run.pc = "done" /\ run.exit = "return" /\ run.zones # <<>>)

\* A step that handles the zone whose turn it is.
HandlesZone == run.pc = "zones" /\ run'.pc = "zones" /\ run'.i = run.i + 1

\* The gate of the zone whose turn it is: public, and its file absent or force.
GateOpen ==
    LET zone == run.targets[run.i]
    IN  ~zone.private /\ (zoneFiles[zone.name] = NoFile \/ run.force)

\* The step appends one record for the zone and counts it as processed.
Appended ==
    LET zone == run.targets[run.i]
    IN  /\ Len(run'.processed_zones) = Len(run.processed_zones) + 1
        /\ SubSeq(run'.processed_zones, 1, Len(run.processed_zones)) = run.processed_zones
        /\ run'.processed_zones[Len(run'.processed_zones)].id = zone.id
        /\ run'.processed_zones[Len(run'.processed_zones)].name = zone.name
        /\ run'.processed = run.processed + 1
        /\ run'.skipped = run.skipped

\* The step writes the zone's artifact and no other.
Written ==
    LET zone == run.targets[run.i]
    IN  /\ run'.generated.zone = zone
        /\ zoneFiles' = [zoneFiles EXCEPT ![zone.name] = run'.generated.content]
        /\ zoneFiles'[zone.name] # NoFile

\* The step counts the zone as skipped and leaves records and files alone.
Skipped ==
    /\ run'.skipped = run.skipped + 1
    /\ run'.processed = run.processed
    /\ run'.processed_zones = run.processed_zones
    /\ zoneFiles' = zoneFiles

\* Every zone is handled once, a skip does not end the loop.
AllHandled(zones) ==
    /\ (InLoop \/ PastLoop) => run.targets = zones
    /\ InLoop => run.processed + run.skipped = run.i - 1
    /\ PastLoop => run.processed + run.skipped = Len(zones)

\* C12 as stated: in any run every listed zone has its artifact written and a
\* record appended, once, if and only if it is public and its file is absent
\* or force is set; otherwise it is counted as skipped, its file is left
\* untouched and no record is appended; the zones after it are still handled.
C12_AsStated ==
    /\ [](AllHandled(ListedZones))
    /\ [][HandlesZone => IF GateOpen THEN Appended /\ Written ELSE Skipped]_vars
    /\ [][zoneFiles' # zoneFiles => HandlesZone]_vars

\* C12, amended: the zones handled are the targets of the run (in single-zone
\* mode the first listed zone of that name, and no other zone is counted);
\* the gate is evaluated at the zone's turn; and a dry run appends the record
\* under the same gate and writes no artifact.
C12_ProcessingGate ==
    /\ [](AllHandled(Targets))
    /\ [][HandlesZone =>
            IF GateOpen
            THEN Appended /\ (IF run.dry_run THEN zoneFiles' = zoneFiles ELSE Written)
            ELSE Skipped]_vars
    /\ [][zoneFiles' # zoneFiles => HandlesZone]_vars

\* A run without --force has skipped a zone whose file existed and has
\* processed the zones after it.
C12_Witness ==
    /\ PastLoop
    /\ run.all_domains /\ ~run.force /\ ~run.dry_run
    /\ startFiles.zoneFiles[NameAB] # NoFile
    /\ run.skipped = 1
    /\ run.processed = 3
    /\ zoneFiles[NameAB] = startFiles.zoneFiles[NameAB]

\* C13: in a dry run no per-zone artifact, neither outputs file and not the
\* imports file is created or modified at any point of the run, whatever the
\* inventory, the flags and the files found.
C13_DryRunWritesNothing == run.dry_run => CurrentFiles = startFiles

\* A dry run with --force and --import-blocks over existing files has ended
\* after processing zones.
C13_Witness ==
    /\ run.dry_run /\ run.force /\ run.import_blocks
    /\ run.pc = "done"
    /\ run.processed > 1
    /\ startFiles = FilesPresent

\* The zones a call has processed, by id, with what it exited on and counted.
Outcome(call) ==
    [exit |-> call.exit,
     processed |-> [k \in 1..Len(call.processed_zones) |-> call.processed_zones[k].id],
     skipped |-> call.skipped]

\* The zones the two outputs updates select for addition.
SelectedForAddition(call, files) ==
    [zones |-> ZonesToAdd(call.processed_zones,
                          ParseZonesOutputsFile(files.zonesOutputs).existing_zones),
     root |-> RootZonesToAdd(call.processed_zones, ExistingRootOutputs(files.rootOutputs))]

\* A dry run has ended, and after it a run with the same arguments and
\* without --dry-run, which found the files the dry run found.
DryThenNot ==
    /\ runPrev.pc = "done" /\ runPrev.dry_run
    /\ run.pc = "done" /\ ~run.dry_run
    /\ run.domain = runPrev.domain /\ run.all_domains = runPrev.all_domains
    /\ run.force = runPrev.force /\ run.import_blocks = runPrev.import_blocks

\* C14: a dry run and a run without --dry-run on the same listing, flags and
\* files give every zone the same outcome (processed, skipped, or the exit of
\* the run) and select the same zones for addition to the outputs files.
C14_DryRunParity ==
    DryThenNot =>
        /\ Outcome(run) = Outcome(runPrev)
        /\ SelectedForAddition(run, startFiles) = SelectedForAddition(runPrev, startFiles)

\* The listing of the zone's record sets fails on some page.
FetchFails(zone_id) == \E k \in 1..Len(listing[zone_id]) : IsClientError(listing[zone_id][k])

\* The import blocks that bind a record.
RecordBlocks(all_blocks) ==
    {k \in 1..Len(all_blocks) : all_blocks[k].k = "# Import record: "}

\* C15: a zone whose record listing fails, on any page, is processed with an
\* empty record set: its artifact has no records declaration, its has_records
\* flag is false and no import block binds a record of it; and the zones
\* after it are still handled.
C15_FetchFailure ==
    /\ AllHandled(Targets)
    /\ (run.generated # NoContent /\ FetchFails(run.generated.zone.id)) =>
            /\ run.generated.records = <<>>
            /\ RecordsDeclarations(run.generated.content) = {}
            /\ ~run.processed_zones[Len(run.processed_zones)].has_records
    /\ \A k \in 1..Len(blocksFor) :
            FetchFails(blocksFor[k].id) => RecordBlocks(BuildImportBlocks(<<blocksFor[k]>>)) = {}

\* Single-zone mode names a zone that is not in the listing.
ZoneNotListed ==
    /\ run.domain # NoDomain
    /\ \A k \in 1..Len(ListedZones) : ListedZones[k].name # run.domain

\* No zone has been handled and no file has been created or modified.
NothingDone ==
    /\ \A k \in 1..Len(log) : log[k].op = "list_hosted_zones"
    /\ run.processed_zones = <<>>
    /\ run.processed + run.skipped = 0
    /\ CurrentFiles = startFiles

\* C16: when the listing of the zones fails, or single-zone mode names a zone
\* that is not in the listing, the run exits with an error before any zone is
\* processed, and no per-zone artifact, outputs file or imports file is
\* created or modified.
C16_AbortClean ==
    (run.pc = "done" /\ (ListFails \/ ZoneNotListed)) => run.exit = "exit 1" /\ NothingDone

\* The places in the listing of the zones whose name the name is under.
ParentsOf(name) ==
    {k \in 1..Len(ListedZones) :
        /\ name # ListedZones[k].name
        /\ \E n \in 1..Len(name) : SubSeq(name, 1, n) \o Dot \o ListedZones[k].name = name}

\* C17: the parent detected for a zone is the first zone of the whole listing
\* (private and skipped zones included) with another name such that the
\* zone's name ends in "." and that name, and none is detected exactly when
\* no listed zone is such; the is_subdomain flag of the zone's record is true
\* exactly when a parent was detected.
C17_SubdomainDetection ==
    /\ run.generated # NoContent =>
        LET parents == ParentsOf(run.generated.zone.name)
        IN  /\ run.generated.parent_zone =
                    IF parents = {} THEN NoParent
                    ELSE ListedZones[CHOOSE k \in parents : \A j \in parents : k <= j].name
            /\ run.processed_zones[Len(run.processed_zones)].is_subdomain
                    = (run.generated.parent_zone # NoParent)
    /\ \A k \in 1..Len(run.processed_zones) :
            run.processed_zones[k].is_subdomain = (ParentsOf(run.processed_zones[k].name) # {})

\* A zone has been generated under the first of two listed zones it is under,
\* after a zone whose parent is a private zone listed after it.
C17_Witness ==
    /\ inventory = InventoryNested
    /\ run.generated.zone.name = NameTSAB
    /\ run.generated.parent_zone = NameSAB
    /\ Len(run.processed_zones) = 2
    /\ run.processed_zones[1].name = NameSAB
    /\ run.processed_zones[1].is_subdomain

\* The record sets the listing of a zone delivers, up to a failure.
Delivered(zone_id) ==
    LET sets == listing[zone_id]
        failed == {k \in 1..Len(sets) : IsClientError(sets[k])}
    IN  IF failed = {} THEN sets
        ELSE SubSeq(sets, 1, (CHOOSE k \in failed : \A j \in failed : k <= j) - 1)

\* The managed record sets of a zone: those delivered, without the NS and SOA
\* whose owner is the zone apex.
ManagedSets(zone) ==
    SelectSeq(Delivered(zone.id),
              LAMBDA rs : ~(rs.Type \in {TypeNS, TypeSOA} /\ RStripChar(rs.Name, ".") = zone.name))

\* The lines that open the entries of the declaration opened at line d.
EntriesOf(content, d) ==
    LET closes == {j \in (d + 1)..Len(content) : content[j].k = "}"}
        close == CHOOSE j \in closes : \A q \in closes : j <= q
    IN  SelectSeq([j \in 1..Len(content) |-> j],
                  LAMBDA j : d < j /\ j < close /\ content[j].k = "    {")

\* C18: the artifact generated for a zone has a records declaration if and
\* only if the zone's managed record set (the listing without the apex NS and
\* SOA) is not empty; the declaration then holds one entry per managed record,
\* in listing order; and the has_records flag of the zone's record equals
\* whether the declaration was emitted.
C18_RecordsDeclaration ==
    run.generated # NoContent =>
        LET zone == run.generated.zone
            c == run.generated.content
            managed == ManagedSets(zone)
            declarations == RecordsDeclarations(c)
        IN  /\ (declarations # {}) = (managed # <<>>)
            /\ Cardinality(declarations) <= 1
            /\ \A d \in declarations :
                LET entries == EntriesOf(c, d)
                IN  /\ Len(entries) = Len(managed)
                    /\ \A k \in 1..Len(entries) :
                        /\ FieldAfter(c, entries[k], "      type = ")
                             = <<Quote>> \o managed[k].Type \o <<Quote>>
                        /\ FieldAfter(c, entries[k], "      name = ")
                             = <<Quote>>
                               \o ContentRecordName(RStripChar(managed[k].Name, "."), zone.name)
                               \o <<Quote>>
            /\ run.processed_zones[Len(run.processed_zones)].has_records = (declarations # {})

\* A zone with four managed record sets beside its apex NS and SOA has been
\* generated with a records declaration.
C18_Witness ==
    /\ run.generated # NoContent
    /\ listing[run.generated.zone.id] = ValuedListing(run.generated.zone.name)
    /\ Len(ManagedSets(run.generated.zone)) = 4
    /\ RecordsDeclarations(run.generated.content) # {}

\* Every target zone of the run has been handled.
LoopDone == run.pc # "run" /\ run.processed + run.skipped = Len(Targets)

\* The call named op has been made in this run.
Called(op) == \E k \in 1..Len(log) : log[k].op = op

\* C19: in one run the zones are processed in listing order; each outputs
\* file (zones, then root) is written at most once, only after the last zone
\* of the batch has been handled and only if a zone was processed; and the
\* imports file is written only after both outputs files have been updated.
C19_BatchOrdering ==
    /\ [][HandlesZone =>
            /\ run.targets[run.i] = Targets[run.processed + run.skipped + 1]
            /\ zonesOutputs = startFiles.zonesOutputs
            /\ rootOutputs = startFiles.rootOutputs
            /\ importsFile = startFiles.importsFile]_vars
    /\ [][zonesOutputs' # zonesOutputs =>
            /\ LoopDone /\ run.processed > 0
            /\ zonesOutputs = startFiles.zonesOutputs
            /\ rootOutputs = startFiles.rootOutputs
            /\ importsFile = startFiles.importsFile]_vars
    /\ [][rootOutputs' # rootOutputs =>
            /\ LoopDone /\ run.processed > 0
            /\ Called("update_zones_outputs_file")
            /\ rootOutputs = startFiles.rootOutputs
            /\ importsFile = startFiles.importsFile]_vars
    /\ [][importsFile' # importsFile =>
            /\ LoopDone /\ run.processed > 0
            /\ Called("update_zones_outputs_file") /\ Called("update_root_outputs_file")
            /\ importsFile = startFiles.importsFile]_vars

\* A run has skipped a zone, processed others and written the two outputs
\* files and the imports file.
C19_Witness ==
    /\ run.pc = "done"
    /\ run.skipped > 0 /\ run.processed > 1
    /\ zonesOutputs # startFiles.zonesOutputs
    /\ rootOutputs # startFiles.rootOutputs
    /\ importsFile # startFiles.importsFile

\* The places of the entries of a name among the entries of a file.
PlacesOf(entries, name) == {k \in 1..Len(entries) : entries[k].name = name}

\* C20: when root/zones/outputs.tf is not empty and holds the combined entry,
\* an update that adds zones puts every new named entry before the combined
\* entry and every new fragment inside the combined entry, and inside no
\* other entry, wherever the combined entry is in the file and whatever
\* follows it.
C20_SplicePlacement ==
    LET before == Entries(zonesPrev)
        after == Entries(zonesOutputs)
        fragments == Fragments(zonesOutputs)
        new == {k \in 1..Len(after) :
                    after[k].name # AllZones /\ PlacesOf(before, after[k].name) = {}}
    IN  (/\ merges >= 1
         /\ ~merge.dry_run
         /\ zonesPrev # NoFile
         /\ PlacesOf(before, AllZones) # {}
         /\ zonesOutputs # zonesPrev)
        => /\ Cardinality(PlacesOf(after, AllZones)) = 1
           /\ \A k \in new : \A c \in PlacesOf(after, AllZones) : k < c
           /\ \A k \in new : PlacesOf(fragments, after[k].name) # {}
           /\ \A j \in 1..Len(before) :
                before[j].name # AllZones => \E k \in 1..Len(after) : after[k] = before[j]

(***************************************************************************)
(* Updates of the outputs files that start without them.                   *)
(***************************************************************************)
\* root/zones/outputs.tf is absent or empty when the first run is made.
InitMergeFresh ==
    /\ InitMerge
    /\ zonesOutputs \in {NoFile, <<BlankLine>>}

SpecMergeFresh == InitMergeFresh /\ [][NextMerge]_vars

\* The names of the entries, or the keys of the fragments, in a sequence.
NamesOf(entries) == {entries[k].name : k \in 1..Len(entries)}

\* C21: after any sequence of updates that starts from an absent or empty
\* root/zones/outputs.tf, the file holds exactly one combined entry named
\* all_zones, and the keys in it are the names of the per-zone entries.
C21_CombinedComplete ==
    /\ (merges >= 1 /\ ~merge.dry_run) => zonesOutputs \notin {NoFile, <<BlankLine>>}
    /\ zonesOutputs \notin {NoFile, <<BlankLine>>} =>
        /\ Cardinality(PlacesOf(Entries(zonesOutputs), AllZones)) = 1
        /\ NamesOf(Fragments(zonesOutputs)) = NamesOf(NamedEntries(zonesOutputs))

\* The entries of root/outputs.tf that refer to a processed zone.
References(doc, zone_name) == PlacesOf(Entries(doc), RootOutputName(zone_name))

\* C22: after a run that is not a dry run, root/outputs.tf holds exactly one
\* entry <sanitized name>_details for every processed zone, the entry
\* <sanitized name> it refers to is in root/zones/outputs.tf, and when
\* root/outputs.tf was absent its first entry is the entry "zones".
C22_RootReferences ==
    (merges >= 1 /\ ~merge.dry_run) =>
        /\ \A k \in 1..Len(merge.zones) :
            /\ Cardinality(References(rootOutputs, merge.zones[k].name)) = 1
            /\ SanitizeModuleName(merge.zones[k].name) \in NamesOf(Entries(zonesOutputs))
        /\ (rootPrev = NoFile /\ merge.zones # <<>>) =>
            /\ Entries(rootOutputs)[1].name = <<"zones">>
            /\ PlacesOf(Entries(rootOutputs), <<"zones">>) = {1}

(***************************************************************************)
(* Runs of run() with Route 53 changing between them.                      *)
(***************************************************************************)
\* s.a.b alone, and s.a.b after a.b has been created.  With the third choice
\* of record sets a.b holds the NS record set that delegates s.a.b.
InventoryAlone == << HostedZone(<<"Z", "3">>, NameSAB, FALSE, <<>>) >>
InventoryParented ==
    << HostedZone(<<"Z", "1">>, NameAB, FALSE, <<>>),
       HostedZone(<<"Z", "3">>, NameSAB, FALSE, <<>>) >>

\* What list_hosted_zones and get_zone_records can return to a call.
Route53States ==
    { <<inv, RunListingOf(inv, choice)>> :
        inv \in {InventoryAlone, InventoryParented},
        choice \in {<<"valued", "apex", "valued">>, <<"apex", "valued", "apex">>,
                    <<"apex", "delegating", "valued">>} }

\* The runs start with no file under root/.
InitRunChanging ==
    /\ \E state \in Route53States :
        /\ inventory = state[1]
        /\ listing = state[2]
    /\ zoneFiles = FilesAbsent.zoneFiles
    /\ zonesOutputs = FilesAbsent.zonesOutputs
    /\ rootOutputs = FilesAbsent.rootOutputs
    /\ importsFile = FilesAbsent.importsFile
    /\ startFiles = FilesAbsent
    /\ run = NoCall
    /\ runPrev = NoCall
    /\ log = <<>>
    /\ importsPrev = NoFile
    /\ lastRun = NoRun
    /\ blocksFor = <<>>
    /\ blocks = <<>>
    /\ printedFor = <<>>
    /\ printed = <<>>
    /\ runs = 0
    /\ zonesPrev = NoFile
    /\ rootPrev = NoFile
    /\ merge = NoMerge
    /\ mergePrev = NoMerge
    /\ merges = 0
    /\ TxtIdle
    /\ RelIdle

\* Between two calls of main() zones are created or deleted and their
\* record sets change.
Route53Changes ==
    /\ run.pc = "done"
    /\ runs < MaxRuns
    /\ \E state \in Route53States \ {<<inventory, listing>>} :
        /\ inventory' = state[1]
        /\ listing' = state[2]
    /\ UNCHANGED <<zoneFiles, zonesOutputs, rootOutputs, importsFile, importsPrev, lastRun,
                   blocksFor, blocks, printedFor, printed, runs, zonesPrev, rootPrev,
                   merge, mergePrev, merges, run, runPrev, startFiles, log, txtVars, relVars>>

NextRunChanging == NextRun \/ Route53Changes

SpecRunChanging == InitRunChanging /\ [][NextRunChanging]_vars

\* A module name with "_subdomain_zone_records" as the artifact writes it.
CanonicalModule(name) ==
    Flatten([i \in 1..Len(name) |->
                IF name[i] = "_subdomain_zone_records"
                THEN <<"_subdomain_zone", "_records">> ELSE <<name[i]>>])

\* The modules that the lines of an entry of root/zones/outputs.tf refer to.
ReferencedModules(lines) ==
    UNION { { CanonicalModule(SubSeq(lines[i].v, 2, j - 1)) :
                j \in {q \in 2..Len(lines[i].v) :
                          lines[i].v[q] \in {".route53_zone_zone_id[",
                                             ".route53_zone_name_servers[",
                                             ".route53_record_name"}} } :
            i \in {q \in 1..Len(lines) : lines[q].v # <<>> /\ lines[q].v[1] = "module."} }

\* The modules that a per-zone artifact declares.
DeclaredModules(content) ==
    { CanonicalModule(content[i].v) : i \in {k \in 1..Len(content) : content[k].k = "module "} }

\* The entries of root/zones/outputs.tf written for a zone.
EntriesFor(doc, zone_name) ==
    SelectSeq(Entries(doc),
              LAMBDA e : \E i \in 1..Len(e.lines) :
                            e.lines[i] = Line("  description = ", <<"Details for ">> \o zone_name))

\* C23: after any sequence of runs, with Route 53 changing between them,
\* every module that a zone's entry in root/zones/outputs.tf refers to is
\* declared in the zone's artifact as it is now.
C23_AggregateConsistent ==
    run.pc \in {"idle", "done"} =>
        \A n \in RunZoneNames :
            zoneFiles[n] # NoFile =>
                \A k \in 1..Len(EntriesFor(zonesOutputs, n)) :
                    ReferencedModules(EntriesFor(zonesOutputs, n)[k].lines)
                        \subseteq DeclaredModules(zoneFiles[n])

(***************************************************************************)
(* The records that the artifacts of a run declare.                        *)
(***************************************************************************)
\* The line that closes the module declaration opened at line i.
ModuleEnd(content, i) ==
    LET later == {j \in (i + 1)..Len(content) : content[j].k = "module "}
    IN  IF later = {} THEN Len(content) ELSE (CHOOSE j \in later : \A q \in later : j <= q) - 1

\* The records (zone name, relative name, type) of the declaration at line i.
DeclaredRecords(content, i) ==
    { << FieldAfter(content, i, "  zone_name = "), content[j].v,
         FieldAfter(content, j, "      type = ") >> :
        j \in {q \in i..ModuleEnd(content, i) : content[q].k = "      name = "} }

\* The declarations of records, of either kind, in the artifacts that the
\* call generated: each with the zone whose artifact holds it.
GeneratedDeclarations ==
    UNION { { <<n, i>> : i \in ModulesOf(zoneFiles[n],
                                         "terraform-aws-modules/route53/aws//modules/records") } :
            n \in {run.processed_zones[k].name : k \in 1..Len(run.processed_zones)} }

\* C24: in the artifacts generated by one run for all zones no record (zone
\* name, relative name, type) is declared by two declarations of records; the
\* NS record a zone's artifact declares in its parent is not declared by the
\* parent's artifact too.
C24_NoDoubleDeclaration ==
    (run.pc = "done" /\ run.all_domains /\ ~run.dry_run) =>
        \A d, e \in GeneratedDeclarations :
            d # e => DeclaredRecords(zoneFiles[d[1]], d[2])
                        \cap DeclaredRecords(zoneFiles[e[1]], e[2]) = {}

(***************************************************************************)
(* A run of generate_import_blocks that plans nothing new.                 *)
(***************************************************************************)
\* The last run wrote import blocks without --force into a file that held
\* the target address of every statement it planned.
NothingNewPlanned ==
    /\ lastRun.import_blocks /\ ~lastRun.force /\ ~lastRun.dry_run
    /\ importsPrev # NoFile
    /\ blocksFor = lastRun.zones
    /\ ParseExistingImportsToAddresses(blocks) # {}
    /\ ParseExistingImportsToAddresses(blocks)
            \subseteq ParseExistingImportsToAddresses(importsPrev)

\* C25: a run with --import-blocks and without --force, every planned
\* statement of which has its target address in imports.tf already, leaves
\* imports.tf as it was, line for line.
C25_RerunNoOp == NothingNewPlanned => importsFile = importsPrev

====
